---- MODULE Spec2Model ----
(***************************************************************************)
(* Tool-call extraction and orchestration of omniporton.                   *)
(*                                                                         *)
(* Text is modelled as a sequence of one-character strings, so that a tag  *)
(* can be cut at any character.  The dialect tags are the real ones.       *)
(* Payloads are written over the alphabet                                  *)
(*     letters  _  .  space  newline  "  :  ,  {  }  <  >  /  backquote    *)
(* (no digits, no brackets, no backslash): on that alphabet JsonParse is   *)
(* JSON.parse, character for character.                                    *)
(***************************************************************************)
EXTENDS Integers, Sequences, FiniteSets, TLC

\* ------------------------------------------------------------------ text

FunctionCallOpen ==
    <<"<", "f", "u", "n", "c", "t", "i", "o", "n", "_", "c", "a", "l", "l", ">">>
FunctionCallClose ==
    <<"<", "/", "f", "u", "n", "c", "t", "i", "o", "n", "_", "c", "a", "l", "l", ">">>
ToolUseOpen ==
    <<"<", "t", "o", "o", "l", "_", "u", "s", "e", ">">>
ToolUseClose ==
    <<"<", "/", "t", "o", "o", "l", "_", "u", "s", "e", ">">>
ToolCallOpen ==
    <<"<", "t", "o", "o", "l", "_", "c", "a", "l", "l", ">">>
ToolCallClose ==
    <<"<", "/", "t", "o", "o", "l", "_", "c", "a", "l", "l", ">">>
NameOpen ==
    <<"<", "n", "a", "m", "e", ">">>
NameClose ==
    <<"<", "/", "n", "a", "m", "e", ">">>
ArgumentsOpen ==
    <<"<", "a", "r", "g", "u", "m", "e", "n", "t", "s", ">">>
ArgumentsClose ==
    <<"<", "/", "a", "r", "g", "u", "m", "e", "n", "t", "s", ">">>
LitTrue ==
    <<"t", "r", "u", "e">>
LitFalse ==
    <<"f", "a", "l", "s", "e">>
LitNull ==
    <<"n", "u", "l", "l">>
\* The backquote character is written "BQ" (a TLA+ string cannot hold it).
Fence ==
    <<"BQ", "BQ", "BQ">>
EmptyObjectText ==
    <<"{", "}">>
KeyName ==
    <<"n", "a", "m", "e">>
KeyArguments ==
    <<"a", "r", "g", "u", "m", "e", "n", "t", "s">>

\* The characters String.prototype.trim and JSON.parse skip.
IsSpace(c) ==
    c \in {" ", "\n"}

\* \w of the fence's language tag.
IsWordChar(c) ==
    c \in {"a", "b", "c", "d", "e", "f", "g", "h", "i", "j", "k", "l", "m", "n",
           "o", "p", "q", "r", "s", "t", "u", "v", "w", "x", "y", "z", "_",
           "L", "P"}

MinOf(S) ==
    CHOOSE x \in S : \A y \in S : x <= y

MaxOf(S) ==
    CHOOSE x \in S : \A y \in S : y <= x

\* pat occurs in s at position i.
MatchesAt(s, pat, i) ==
    /\ i >= 1
    /\ i + Len(pat) - 1 <= Len(s)
    /\ \A k \in 1..Len(pat) : s[i + k - 1] = pat[k]

\* String.prototype.indexOf from position `from` (1-based); 0 when absent.
IndexOf(s, pat, from) ==
    LET hits == {i \in from..(Len(s) - Len(pat) + 1) :
                    s[i] = pat[1] /\ MatchesAt(s, pat, i)}
    IN  IF hits = {} THEN 0 ELSE MinOf(hits)

\* String.prototype.slice(from - 1): the suffix starting at position from.
SliceFrom(s, from) ==
    SubSeq(s, from, Len(s))

\* String.prototype.trim.
Trim(s) ==
    LET keep == {i \in 1..Len(s) : ~IsSpace(s[i])}
    IN  IF keep = {} THEN <<>> ELSE SubSeq(s, MinOf(keep), MaxOf(keep))

\* ----------------------------------------------------------- JSON values

JString(chars) ==
    [t |-> "string", s |-> chars, kv |-> <<>>]

JObject(members) ==
    [t |-> "object", s |-> <<>>, kv |-> members]

\* true, false, null, and JavaScript's undefined.
JLiteral(which) ==
    [t |-> which, s |-> <<>>, kv |-> <<>>]

Undefined ==
    JLiteral("undefined")

\* A thrown exception of a decoder.
Thrown ==
    [ok |-> FALSE, val |-> Undefined]

Returned(v) ==
    [ok |-> TRUE, val |-> v]

\* obj[key] = value on an object's member list: a repeated key keeps its
\* place and takes the later value.
SetMember(members, key, value) ==
    IF \E i \in 1..Len(members) : members[i].k = key
    THEN [i \in 1..Len(members) |->
            IF members[i].k = key THEN [k |-> key, v |-> value] ELSE members[i]]
    ELSE Append(members, [k |-> key, v |-> value])

\* ------------------------------------------------------------ JSON.parse

SkipSpace(s, i) ==
    MinOf({j \in i..(Len(s) + 1) : j = Len(s) + 1 \/ ~IsSpace(s[j])})

NoParse ==
    [ok |-> FALSE, val |-> Undefined, next |-> 0]

\* The first of two decoder results that did not throw: try a, catch, b.
FirstOk(a, b) ==
    IF a.ok THEN a ELSE b

\* The string literal opening at s[i] = '"' whose next quote is at `close`
\* (0: none): it holds no line break.
StringUpTo(s, i, close) ==
    IF close = 0 \/ \E j \in (i + 1)..(close - 1) : s[j] = "\n"
    THEN NoParse
    ELSE [ok |-> TRUE, val |-> JString(SubSeq(s, i + 1, close - 1)),
          next |-> close + 1]

\* A string literal opening at s[i] = '"': it runs to the next quote.
ParseString(s, i) ==
    StringUpTo(s, i, IndexOf(s, <<"\"">>, i + 1))

RECURSIVE ParseValue(_, _), ParseMembers(_, _, _)

\* After a member: "}" ends the object, "," announces the next member.
AfterMember(s, members, after) ==
    IF after > Len(s) THEN NoParse
    ELSE IF s[after] = "}"
        THEN [ok |-> TRUE, val |-> JObject(members), next |-> after + 1]
    ELSE IF s[after] = ","
        THEN ParseMembers(s, SkipSpace(s, after + 1), members)
    ELSE NoParse

\* The member `name` has the parsed `value`.
AfterValue(s, done, name, value) ==
    IF ~value.ok THEN NoParse
    ELSE AfterMember(s, SetMember(done, name, value.val),
                     SkipSpace(s, value.next))

\* After the key `name`: a colon at position `colon`, then a value.
AfterKey(s, done, name, colon) ==
    IF colon <= Len(s) /\ s[colon] = ":"
    THEN AfterValue(s, done, name, ParseValue(s, SkipSpace(s, colon + 1)))
    ELSE NoParse

\* A member whose key literal parsed as `key`.
MemberOf(s, done, key) ==
    IF key.ok THEN AfterKey(s, done, key.val.s, SkipSpace(s, key.next))
    ELSE NoParse

\* The members of an object from position i (a key is due), after `done`.
ParseMembers(s, i, done) ==
    IF i > Len(s) \/ s[i] # "\"" THEN NoParse
    ELSE MemberOf(s, done, ParseString(s, i))

\* An object whose first token after "{" is at position j.
ParseObject(s, j) ==
    IF j <= Len(s) /\ s[j] = "}"
    THEN [ok |-> TRUE, val |-> JObject(<<>>), next |-> j + 1]
    ELSE ParseMembers(s, j, <<>>)

\* A JSON value starting exactly at position i.
ParseValue(s, i) ==
    IF i > Len(s) THEN NoParse
    ELSE IF s[i] = "\"" THEN ParseString(s, i)
    ELSE IF s[i] = "{" THEN ParseObject(s, SkipSpace(s, i + 1))
    ELSE IF MatchesAt(s, LitTrue, i)
        THEN [ok |-> TRUE, val |-> JLiteral("true"), next |-> i + Len(LitTrue)]
    ELSE IF MatchesAt(s, LitFalse, i)
        THEN [ok |-> TRUE, val |-> JLiteral("false"), next |-> i + Len(LitFalse)]
    ELSE IF MatchesAt(s, LitNull, i)
        THEN [ok |-> TRUE, val |-> JLiteral("null"), next |-> i + Len(LitNull)]
    ELSE NoParse

\* The value r parsed from s is all of s but white space.
WholeValue(s, r) ==
    IF r.ok /\ SkipSpace(s, r.next) = Len(s) + 1 THEN Returned(r.val) ELSE Thrown

\* JSON.parse(s): one value, with nothing but white space around it.
JsonParse(s) ==
    WholeValue(s, ParseValue(s, SkipSpace(s, 1)))

\* ------------------------------------------------------ payload decoder

\* The fence match on trimmed text t: /^```(?:\w+)?\n([\s\S]*?)\n```$/.  The
\* opening line ends at the first line break that follows ``` and word
\* characters only; the closing fence is the last four characters.
StripFence(t) ==
    LET heads == {j \in 4..(Len(t) - 4) :
                     /\ t[j] = "\n"
                     /\ \A k \in 4..(j - 1) : IsWordChar(t[k])}
    IN  IF /\ MatchesAt(t, Fence, 1)
           /\ MatchesAt(t, <<"\n">> \o Fence, Len(t) - 3)
           /\ heads # {}
        THEN Trim(SubSeq(t, MinOf(heads) + 1, Len(t) - 4))
        ELSE t

\* stripMarkdownCodeBlock: the inner text of a fenced block, trimmed, or the
\* trimmed text when there is no fence.
stripMarkdownCodeBlock(text) ==
    StripFence(Trim(text))

\* JSON.parse of the match of /({[\s\S]*})/: the span from the first "{" (at
\* `first`, 0: none) to the last "}".
ParseBraceSpan(str, first) ==
    LET lasts == {j \in (first + 1)..Len(str) : str[j] = "}"}
    IN  IF first # 0 /\ lasts # {}
        THEN JsonParse(SubSeq(str, first, MaxOf(lasts)))
        ELSE Thrown

\* tryParseJson: JSON.parse(str), else JSON.parse of the brace span.
tryParseJson(str) ==
    FirstOk(JsonParse(str), ParseBraceSpan(str, IndexOf(str, <<"{">>, 1)))

\* yaml.load of js-yaml on trimmed text t, for the payloads of this model:
\* the empty document loads as undefined; JSON is YAML flow syntax and loads
\* as the same value; any other text opening a flow collection or a quoted
\* scalar is one that is cut short or followed by text, which js-yaml
\* rejects; all other text is a plain scalar and loads as a string.
YamlDocument(t) ==
    IF t = <<>> THEN Returned(Undefined)
    ELSE FirstOk(JsonParse(t),
                 IF t[1] \in {"{", "}", "\"", ",", "BQ"} THEN Thrown
                 ELSE Returned(JString(t)))

yamlLoad(str) ==
    YamlDocument(Trim(str))

\* The match of /open([\s\S]*?)close/ whose open tag is at i and whose close
\* tag is at j (0: no match).
MatchSpan(buf, pat, i, j) ==
    IF j = 0 THEN [found |-> FALSE, start |-> 0, body |-> <<>>, end |-> 0]
    ELSE [found |-> TRUE, start |-> i,
          body |-> SubSeq(buf, i + Len(pat.open), j - 1),
          end |-> j + Len(pat.close)]

\* The match whose open tag is at i (0: none): up to the first close tag.
MatchFrom(buf, pat, i) ==
    MatchSpan(buf, pat, i,
              IF i = 0 THEN 0 ELSE IndexOf(buf, pat.close, i + Len(pat.open)))

\* One pat.exec from lastIndex `from` (1-based) of /open([\s\S]*?)close/g:
\* the leftmost open tag that has a close tag after it, up to the first such
\* close tag.
Exec(buf, pat, from) ==
    MatchFrom(buf, pat, IndexOf(buf, pat.open, from))

NamePattern ==
    [open |-> NameOpen, close |-> NameClose]

ArgumentsPattern ==
    [open |-> ArgumentsOpen, close |-> ArgumentsClose]

\* The arguments of parseXml: decoded as JSON, else as YAML, else kept as
\* the raw string.
XmlArguments(raw) ==
    FirstOk(FirstOk(JsonParse(raw), yamlLoad(raw)), Returned(JString(raw))).val

\* parseXml on its two matches: <name> is required; <arguments> defaults to
\* "{}".
XmlCall(nameMatch, argsMatch) ==
    IF ~nameMatch.found THEN Thrown
    ELSE Returned(JObject(
            <<[k |-> KeyName, v |-> JString(Trim(nameMatch.body))],
              [k |-> KeyArguments,
               v |-> XmlArguments(IF argsMatch.found THEN Trim(argsMatch.body)
                                  ELSE EmptyObjectText)]>>))

parseXml(str) ==
    XmlCall(Exec(str, NamePattern, 1), Exec(str, ArgumentsPattern, 1))

\* The decoders with auto trying YAML before JSON.
DecodeAsYamlFirst(s, format) ==
    CASE format = "json" -> tryParseJson(s)
      [] format = "yaml" -> yamlLoad(s)
      [] format = "xml" -> parseXml(s)
      [] format = "auto" ->
            FirstOk(yamlLoad(s), FirstOk(tryParseJson(s), parseXml(s)))
      [] OTHER -> Thrown

\* The decoders of each format on the stripped payload s; auto tries JSON,
\* then YAML, then XML.
DecodeAs(s, format) ==
    CASE format = "json" -> tryParseJson(s)
      [] format = "yaml" -> yamlLoad(s)
      [] format = "xml" -> parseXml(s)
      [] format = "auto" ->
            FirstOk(tryParseJson(s), FirstOk(yamlLoad(s), parseXml(s)))
      [] OTHER -> Thrown

\* parseToolCallPayload(str, format).
parseToolCallPayload(str, format) ==
    DecodeAs(stripMarkdownCodeBlock(Trim(str)), format)

\* ------------------------------------------------ StreamingToolCallBuffer

FunctionCallPattern ==
    [open |-> FunctionCallOpen, close |-> FunctionCallClose]

ToolUsePattern ==
    [open |-> ToolUseOpen, close |-> ToolUseClose]

ToolCallPattern ==
    [open |-> ToolCallOpen, close |-> ToolCallClose]

\* The patterns of each protocol, in the order push scans them.
Patterns(protocol) ==
    CASE protocol = "function_calling" -> <<FunctionCallPattern>>
      [] protocol = "tool_use" -> <<ToolUsePattern>>
      [] protocol = "tool" -> <<ToolCallPattern, FunctionCallPattern>>
      [] OTHER -> <<FunctionCallPattern, ToolUsePattern, ToolCallPattern>>

\* What one match adds to toolCalls: its decoded payload, or nothing when
\* the decoder threw.
DecodedCalls(parsed) ==
    IF parsed.ok THEN <<parsed.val>> ELSE <<>>

RECURSIVE ScanPattern(_, _, _, _)

\* The while loop over one pattern, at the match m.
ScanMatch(buf, pat, format, m) ==
    IF ~m.found THEN <<>>
    ELSE DecodedCalls(parseToolCallPayload(m.body, format))
            \o ScanPattern(buf, pat, format, m.end)

\* The while loop over one pattern: the decoded payload of every match from
\* `from` on, in match order.
ScanPattern(buf, pat, format, from) ==
    ScanMatch(buf, pat, format, Exec(buf, pat, from))

RECURSIVE ScanAll(_, _, _, _)

\* The for loop over the protocol's patterns, from pattern k on.
ScanAll(buf, pats, format, k) ==
    IF k > Len(pats) THEN <<>>
    ELSE ScanPattern(buf, pats[k], format, 1) \o ScanAll(buf, pats, format, k + 1)

RECURSIVE ReplaceAll(_, _)

\* buf.replace(/open[\s\S]*?close/g, ''), at the match m.
ReplaceMatch(buf, pat, m) ==
    IF ~m.found THEN buf
    ELSE SubSeq(buf, 1, m.start - 1) \o ReplaceAll(SliceFrom(buf, m.end), pat)

\* buf.replace(/open[\s\S]*?close/g, '').
ReplaceAll(buf, pat) ==
    ReplaceMatch(buf, pat, Exec(buf, pat, 1))

\* The processed blocks left in the buffer.
RemoveBlocksForgotten(buf) ==
    buf

\* "Remove processed blocks from buffer": the three replaces, whatever the
\* protocol.
RemoveBlocks(buf) ==
    ReplaceAll(ReplaceAll(ReplaceAll(buf, FunctionCallPattern), ToolUsePattern),
               ToolCallPattern)

\* The outcome of push on the joined buffer `full`, the scan having decoded
\* toolCalls: blocks are removed when the scan decoded any.
PushResult(full, toolCalls) ==
    [buffer |-> IF toolCalls # <<>> THEN RemoveBlocks(full) ELSE full,
     calls |-> toolCalls]

\* push(chunk) on a buffer holding buf: the new buffer and the calls returned
\* (the empty sequence stands for null).
BufferPush(buf, chunk, protocol, format) ==
    PushResult(buf \o chunk,
               ScanAll(buf \o chunk, Patterns(protocol), format, 1))

\* The index of the first match of /<function_call>|<tool_use>|<tool_call>/,
\* 0 when there is none.
FirstOpenTag(buf) ==
    LET hits == {i \in 1..Len(buf) :
                    /\ buf[i] = "<"
                    /\ \/ MatchesAt(buf, FunctionCallOpen, i)
                       \/ MatchesAt(buf, ToolUseOpen, i)
                       \/ MatchesAt(buf, ToolCallOpen, i)}
    IN  IF hits = {} THEN 0 ELSE MinOf(hits)

\* The buffer up to the open tag at idx (0: no open tag, all of it).
VisibleUpTo(buf, idx) ==
    IF idx = 0 THEN buf ELSE SubSeq(buf, 1, idx - 1)

\* getVisibleContent().
getVisibleContent(buf) ==
    VisibleUpTo(buf, FirstOpenTag(buf))

\* ------------------------------------------------------------- the state

VARIABLES
    protocol,          \* StreamingToolCallBuffer.protocol
    format,            \* StreamingToolCallBuffer.format
    text,              \* the model output being delivered
    pos,               \* how many characters of text have been pushed
    buffer,            \* StreamingToolCallBuffer.buffer
    contentBuffer,     \* StreamingExtractor.contentBuffer
    lastVisibleIndex,  \* StreamingExtractor.lastVisibleIndex
    reported,          \* every call push has returned, in order
    emitted,           \* the Content segments pushToken has returned, joined
    segments,          \* what extractSegments returned
    extracted          \* extractSegments has returned

streamVars ==
    <<pos, buffer, contentBuffer, lastVisibleIndex, reported, emitted>>

segmentVars ==
    <<segments, extracted>>

VARIABLES
    agenticMode,           \* ChatSession.options.agenticMode
    maxAgenticIterations,  \* ChatSession.options.maxAgenticIterations
    maxToolCalls,          \* ChatSession.options.maxToolCalls
    mcpService,            \* the session was constructed with an MCPService
    mode,                  \* the entry point of the episode: "chat" or "stream"
    chatPc,                \* where the episode stands
    history,               \* ChatSession.history
    toolCallResults,       \* ChatSession.toolCallResults
    invocations,           \* the calls whose tool handler was invoked, in order
    iterations,            \* agenticChat's iterations
    toolCalls,             \* the toolCalls executeToolCalls is looping over
    callIndex,             \* the position of its for loop
    assistantContent,      \* processSegments' assistantContent, stream's finalContent
    returned,              \* what chat() or stream() returned
    rounds,                \* the content and calls of each model response so far
    chunks,                \* how many chunks of the stream have been handled
    abandoned              \* how many handlers still run after losing their race

chatVars ==
    <<agenticMode, maxAgenticIterations, maxToolCalls, mcpService, mode,
      chatPc, history, toolCallResults, invocations, iterations, toolCalls, callIndex,
      assistantContent, returned, rounds, chunks, abandoned>>

VARIABLES
    decoded,               \* what parseToolCallPayload returned or that it threw
    decodePc               \* "ready" before the call, "done" after it

decodeVars ==
    <<decoded, decodePc>>

VARIABLES
    turnPc,                \* where each chat() call on one session stands
    turnCalls,             \* how many calls of its response it has yet to finish
    sessionHistory,        \* ChatSession.history, each message with its turn
    sessionResults         \* ChatSession.toolCallResults, each with its turn

turnVars ==
    <<turnPc, turnCalls, sessionHistory, sessionResults>>

VARIABLES
    passesSet,             \* the caller passes processedToolCallIds
    seenIds,               \* handleToolCallFromModelOutput's seenIds
    handlePc,              \* where the invocation stands
    handleCalls,           \* the calls buffer.push(modelOutput) returned
    handleIndex,           \* the position of the for loop
    handleResults,         \* the invocation's results
    handleMessages,        \* the messages the invocation has added
    handleInvoked          \* the calls whose handler the invocation has invoked

handleVars ==
    <<passesSet, seenIds, handlePc, handleCalls, handleIndex, handleResults,
      handleMessages, handleInvoked>>

VARIABLES
    legacyPc,              \* where astream_chat stands
    legacyHistory,         \* LegacyChatSession.history, tool messages with their call
    legacyTokens,          \* how many tokens partialHandler has handled
    legacyContent,         \* the visible text so far is not blank
    legacyIds,             \* astream_chat's processedIds
    legacyPending          \* the calls whose handler is awaited

legacyVars ==
    <<legacyPc, legacyHistory, legacyTokens, legacyContent, legacyIds,
      legacyPending>>

VARIABLES
    templateProtocol,        \* the protocol of the model's template
    combineContentSegments,  \* LegacyChatSession.combineContentSegments
    astreamPc,               \* where astream_chat stands on the streamed text
    astreamMessage,          \* the assistant message astream_chat added
    astreamReturned          \* what astream_chat returned

astreamVars ==
    <<templateProtocol, combineContentSegments, astreamPc, astreamMessage,
      astreamReturned>>

VARIABLES
    retryKind,             \* the method called: "execute" or "executeWithRetryAfter"
    maxAttempts,           \* RetryHandler.options.maxAttempts
    attempt,               \* the loop variable of execute
    retryPc,               \* where the call stands
    operationCalls,        \* how many times the wrapped operation was invoked
    operationLog           \* how each invocation settled, in order

retryVars ==
    <<retryKind, maxAttempts, attempt, retryPc, operationCalls, operationLog>>

VARIABLES
    isRunning,             \* Agent.state.isRunning
    agentPc,               \* where each execute() or stream() call stands
    tools,                 \* the names in MCPService.tools
    mcpInitialized,        \* Agent.mcpInitialized
    serverTools            \* what the MCP server's listTools returns

agentVars ==
    <<isRunning, agentPc, tools, mcpInitialized, serverTools>>

\* The variables of RetryHandler and of Agent.
utilVars ==
    <<retryVars, agentVars>>

\* The variables of the machines other than the buffer, extractSegments and
\* ChatSession.
restVars ==
    <<decodeVars, turnVars, handleVars, legacyVars, astreamVars, utilVars>>

vars ==
    <<protocol, format, text, streamVars, segmentVars, chatVars, restVars>>

\* No payload is being decoded.
NoDecode ==
    /\ decoded = Thrown
    /\ decodePc = "ready"

\* The chat() calls made on one session.
Turns ==
    {1, 2}

\* No chat() call has been made on the session.
NoTurns ==
    /\ turnPc = [t \in Turns |-> "idle"]
    /\ turnCalls = [t \in Turns |-> 0]
    /\ sessionHistory = <<>>
    /\ sessionResults = <<>>

\* handleToolCallFromModelOutput has not been invoked.
NoHandle ==
    /\ passesSet = FALSE
    /\ seenIds = {}
    /\ handlePc = "idle"
    /\ handleCalls = <<>>
    /\ handleIndex = 0
    /\ handleResults = <<>>
    /\ handleMessages = <<>>
    /\ handleInvoked = <<>>

\* astream_chat has not been called.
NoLegacy ==
    /\ legacyPc = "idle"
    /\ legacyHistory = <<>>
    /\ legacyTokens = 0
    /\ legacyContent = FALSE
    /\ legacyIds = {}
    /\ legacyPending = {}

\* No assistant message added.
NoMessage ==
    [added |-> FALSE, content |-> <<>>]

\* astream_chat is not reading a streamed text.
NoAstream ==
    /\ templateProtocol = "none"
    /\ combineContentSegments = TRUE
    /\ astreamPc = "idle"
    /\ astreamMessage = NoMessage
    /\ astreamReturned = <<>>

\* The default of RetryOptions.maxAttempts.
DefaultMaxAttempts ==
    3

\* No RetryHandler call.
NoRetry ==
    /\ retryKind = "execute"
    /\ maxAttempts = DefaultMaxAttempts
    /\ attempt = 0
    /\ retryPc = "idle"
    /\ operationCalls = 0
    /\ operationLog = <<>>

\* The calls made on one Agent.
AgentCalls ==
    {1, 2}

\* An Agent without MCP servers, on which nothing has been called.
NoAgent ==
    /\ isRunning = FALSE
    /\ agentPc = [c \in AgentCalls |-> "idle"]
    /\ tools = {}
    /\ mcpInitialized = FALSE
    /\ serverTools = <<>>

NoUtil ==
    /\ NoRetry
    /\ NoAgent

\* The other machines at rest.
AtRest ==
    /\ NoDecode
    /\ NoTurns
    /\ NoHandle
    /\ NoLegacy
    /\ NoAstream
    /\ NoUtil

\* No stream is being delivered.
NoStream ==
    /\ pos = 0
    /\ buffer = <<>>
    /\ contentBuffer = <<>>
    /\ lastVisibleIndex = 0
    /\ reported = <<>>
    /\ emitted = <<>>

\* No extractSegments call has been made.
NoSegments ==
    /\ segments = <<>>
    /\ extracted = FALSE

\* The default of options.maxAgenticIterations.
DefaultMaxAgenticIterations ==
    5

\* A ChatSession with the default options, history empty, no episode begun.
\* The default of options.maxToolCalls.
DefaultMaxToolCalls ==
    10

NoChat ==
    /\ agenticMode = FALSE
    /\ maxAgenticIterations = DefaultMaxAgenticIterations
    /\ maxToolCalls = DefaultMaxToolCalls
    /\ mcpService = FALSE
    /\ mode = "chat"
    /\ chatPc = "idle"
    /\ history = <<>>
    /\ toolCallResults = <<>>
    /\ invocations = <<>>
    /\ iterations = 0
    /\ toolCalls = <<>>
    /\ callIndex = 0
    /\ assistantContent = <<>>
    /\ returned = <<>>
    /\ rounds = <<>>
    /\ chunks = 0
    /\ abandoned = 0

\* ------------------------------------------------------------ the inputs

\* The longest run of plain characters around the blocks of a text.
MaxPlain ==
    1

\* The longest chunk one push delivers, short of "all the rest".
MaxChunk ==
    3

PayloadX ==
    <<"{", "\"", "n", "a", "m", "e", "\"", ":", "\"", "x", "\"", "}">>
PayloadY ==
    <<"{", "\"", "n", "a", "m", "e", "\"", ":", "\"", "y", "\"", "}">>
\* A payload cut short: no decoder accepts it.
PayloadBad ==
    <<"{", "\"", "n", "a", "m", "e", "\"">>

Run(c, n) ==
    [i \in 1..n |-> c]

ToolCallBlock(payload) ==
    ToolCallOpen \o payload \o ToolCallClose

FunctionCallBlock(payload) ==
    FunctionCallOpen \o payload \o FunctionCallClose

ToolUseBlock(payload) ==
    ToolUseOpen \o payload \o ToolUseClose

\* A <tool_use> block whose payload is followed by the open tag of a
\* <function_call> block that closes after it, and then a second </tool_use>.
InterleavedBlocks ==
    ToolUseOpen \o PayloadX \o FunctionCallOpen \o ToolUseClose
        \o FunctionCallClose \o ToolUseClose

\* The blocks of a streamed text: none, one, two in a row, or two
\* interleaved.
BlockRuns ==
    {<<>>,
     InterleavedBlocks,
     ToolCallBlock(PayloadX),
     ToolCallBlock(PayloadBad),
     FunctionCallBlock(PayloadY),
     ToolCallBlock(PayloadX) \o FunctionCallBlock(PayloadY),
     FunctionCallBlock(PayloadY) \o ToolCallBlock(PayloadX),
     ToolCallBlock(PayloadBad) \o ToolCallBlock(PayloadX),
     ToolUseBlock(PayloadX) \o ToolCallBlock(PayloadBad)}

StreamTexts ==
    {Run("a", i) \o blocks \o Run("b", j) :
        i \in 0..MaxPlain, j \in 0..MaxPlain, blocks \in BlockRuns}

Protocols ==
    {"function_calling", "tool_use", "tool", "auto"}

Formats ==
    {"json", "xml", "yaml", "auto"}

\* --------------------------------------------------- StreamingExtractor

\* The buffer options of a streamed turn: each protocol decoding JSON, and
\* the defaults of StreamingExtractor.
StreamOptions ==
    {[protocol |-> p, format |-> "json"] : p \in Protocols}
        \cup {[protocol |-> "auto", format |-> "auto"]}

InitStream ==
    /\ \E opts \in StreamOptions :
          /\ protocol = opts.protocol
          /\ format = opts.format
    /\ text \in StreamTexts
    /\ NoStream
    /\ NoSegments
    /\ NoChat
    /\ AtRest

\* The tail of pushToken: the visible content past lastVisibleIndex becomes
\* a Content segment.
EmitVisible(newPos, pushed, visible) ==
    /\ pos' = newPos
    /\ buffer' = pushed.buffer
    /\ contentBuffer' = visible
    /\ lastVisibleIndex' =
          IF Len(visible) > lastVisibleIndex THEN Len(visible)
          ELSE lastVisibleIndex
    /\ emitted' = emitted \o SliceFrom(visible, lastVisibleIndex + 1)
    /\ reported' = reported \o pushed.calls
    /\ UNCHANGED <<protocol, format, text, segmentVars, chatVars, restVars>>

\* pushToken after buffer.push returned `pushed`.
AfterPush(newPos, pushed) ==
    EmitVisible(newPos, pushed, getVisibleContent(pushed.buffer))

\* pushToken(token), the stream standing at newPos afterwards.
PushTokenTo(token, newPos) ==
    AfterPush(newPos, BufferPush(buffer, token, protocol, format))

\* The stream delivers the next chunk of the output: up to MaxChunk
\* characters, or any number of them ending with a tag, or all the rest.
pushToken ==
    /\ pos < Len(text)
    /\ \E n \in 1..(Len(text) - pos) :
          /\ n <= MaxChunk \/ n = Len(text) - pos \/ text[pos + n] = ">"
          /\ PushTokenTo(SubSeq(text, pos + 1, pos + n), pos + n)

\* finalize(): pushToken('').
finalize ==
    PushTokenTo(<<>>, pos)

Next ==
    \/ pushToken
    \/ finalize

Spec ==
    InitStream /\ [][Next]_vars


\* ------------------------------------- LegacyChatSession.extractSegments

ContentSegment(chars) ==
    [type |-> "content", text |-> chars, toolCall |-> Undefined]

ToolCallSegment(call) ==
    [type |-> "tool_call", text |-> <<>>, toolCall |-> call]

RECURSIVE ToolCallSegments(_)

ToolCallSegments(calls) ==
    IF calls = <<>> THEN <<>>
    ELSE <<ToolCallSegment(Head(calls))>> \o ToolCallSegments(Tail(calls))

RECURSIVE ExtractLoop(_, _, _, _, _)

\* No visible content: the whole of `working` was pushed; its calls become
\* segments and the loop goes on with what is visible of the buffer, or,
\* when there are none, `working` becomes the last Content segment.
ExtractCalls(working, segs, prot, fmt, pushed) ==
    IF pushed.calls # <<>>
    THEN ExtractLoop(pushed.buffer, getVisibleContent(pushed.buffer),
                     segs \o ToolCallSegments(pushed.calls), prot, fmt)
    ELSE Append(segs, ContentSegment(working))

\* Visible content was cut off `working`, leaving rest: one character of rest
\* is pushed.
ExtractContent(buf, rest, segs, prot, fmt) ==
    ExtractLoop(BufferPush(buf, IF rest = <<>> THEN <<>> ELSE <<rest[1]>>,
                           prot, fmt).buffer,
                rest, segs, prot, fmt)

\* One pass of the loop, the buffer showing `before`.
ExtractPass(buf, working, segs, prot, fmt, before) ==
    IF Len(before) > 0
    THEN ExtractContent(buf, SliceFrom(working, Len(before) + 1),
                        Append(segs, ContentSegment(before)), prot, fmt)
    ELSE ExtractCalls(working, segs, prot, fmt,
                      BufferPush(buf, working, prot, fmt))

\* The while loop of extractSegments, entered with the buffer holding buf,
\* `working` left to look at and `segs` collected.
ExtractLoop(buf, working, segs, prot, fmt) ==
    IF Len(working) = 0 THEN segs
    ELSE ExtractPass(buf, working, segs, prot, fmt, getVisibleContent(buf))

\* extractSegments(text, protocol, format), on a buffer of its own.
extractSegmentsOf(t, prot, fmt) ==
    ExtractLoop(<<>>, t, <<>>, prot, fmt)

LetMeCheck ==
    <<"L", "e", "t", " ", "m", "e", " ", "c", "h", "e", "c", "k", ".", " ">>
PayloadWeather ==
    <<"{", "\"", "n", "a", "m", "e", "\"", ":", "\"", "g", "e", "t", "_", "w", "e", "a", "t", "h", "e", "r", "\"", ",", "\"", "a", "r", "g", "u", "m", "e", "n", "t", "s", "\"", ":", "{", "\"", "c", "i", "t", "y", "\"", ":", "\"", "P", "a", "r", "i", "s", "\"", "}", "}">>

\* Complete model outputs: the streamed texts, the same with the model cut
\* off inside a further block, and the weather request.
CompleteTexts ==
    StreamTexts
        \cup {t \o ToolCallOpen \o PayloadBad : t \in StreamTexts}
        \cup {LetMeCheck \o ToolCallBlock(PayloadWeather)}

InitSegments ==
    /\ protocol \in Protocols
    /\ format \in Formats
    /\ text \in CompleteTexts
    /\ NoStream
    /\ NoSegments
    /\ NoChat
    /\ AtRest

extractSegments ==
    /\ ~extracted
    /\ segments' = extractSegmentsOf(text, protocol, format)
    /\ extracted' = TRUE
    /\ UNCHANGED <<protocol, format, text, streamVars, chatVars, restVars>>

NextSegments ==
    extractSegments

SpecSegments ==
    InitSegments /\ [][NextSegments]_vars

\* ------------------------------------------------------------ ChatSession

\* The most segments one model response is extracted into.
MaxSegments ==
    2

\* The largest maxAgenticIterations a session is constructed with.
MaxIterations ==
    2

\* The ids a ToolCall carries; "" stands for no id.
CallIds ==
    {"", "call_1"}

\* The tools of the MCPService; a name it does not know, and "" for a call
\* that has no name.
RegisteredTools ==
    {"search"}

ToolNames ==
    RegisteredTools \cup {"unknown", ""}

\* A ToolCall: `valid` tells whether its arguments pass the tool's schema.
ToolCalls ==
    [id : CallIds, name : ToolNames, valid : BOOLEAN]

NoCall ==
    [id |-> "", name |-> "", valid |-> FALSE]

\* ExtractedSegment of type 'content' and of type 'tool_call'.
ExtractedContent(chars) ==
    [type |-> "content", data |-> chars, call |-> NoCall]

ExtractedToolCall(call) ==
    [type |-> "tool_call", data |-> <<>>, call |-> call]

ExtractedSegments ==
    {ExtractedContent(<<"h", "i">>), ExtractedContent(<<" ">>)}
        \cup {ExtractedToolCall(call) : call \in ToolCalls}

\* What the extractor makes of one model response.
Responses ==
    UNION {[1..n -> ExtractedSegments] : n \in 0..MaxSegments}

\* The most chunks one stream delivers.
MaxTokens ==
    2

\* What pushToken returns for one chunk: the new content, if any, first, and
\* then the calls the buffer reported.
TokenSegments ==
    {segs \in Responses : \A i \in 2..Len(segs) : segs[i].type = "tool_call"}

\* The content and the calls of one model response.
Round(content, calls) ==
    [content |-> content, calls |-> calls]

RECURSIVE JoinContent(_)

\* The for loop of processSegments and of stream's chunk callback:
\* assistantContent += segment.data over the content segments.
JoinContent(segs) ==
    IF segs = <<>> THEN <<>>
    ELSE (IF Head(segs).type = "content" THEN Head(segs).data ELSE <<>>)
            \o JoinContent(Tail(segs))

RECURSIVE CallsOf(_)

\* The same loop: toolCalls.push(segment.data) over the tool_call segments.
CallsOf(segs) ==
    IF segs = <<>> THEN <<>>
    ELSE (IF Head(segs).type = "tool_call" THEN <<Head(segs).call>> ELSE <<>>)
            \o CallsOf(Tail(segs))

\* StreamingExtractor.normalizeToolCall: a call without id gets a generated
\* one.
normalizeToolCall(call) ==
    [call EXCEPT !.id = IF call.id # "" THEN call.id ELSE "call_now"]

RECURSIVE NormalizedCalls(_)

\* The tool_call segments pushToken builds from the calls the buffer reports.
NormalizedCalls(calls) ==
    IF calls = <<>> THEN <<>>
    ELSE <<normalizeToolCall(Head(calls))>> \o NormalizedCalls(Tail(calls))

ChatMessage(role, name, content) ==
    [role |-> role, name |-> name, content |-> content]

UserMessage ==
    ChatMessage("user", "", <<"hello">>)

\* "Add assistant message with content": only when content.trim() is not
\* empty.
WithAssistantMessage(h, content) ==
    IF Trim(content) # <<>> THEN Append(h, ChatMessage("assistant", "", content))
    ELSE h

\* The ToolCallResult of a call; a call without id gets a generated one, and
\* `valid` stands for its arguments.
ToolCallResult(call, outcome, detail) ==
    [id |-> IF call.id # "" THEN call.id ELSE "call_now",
     name |-> call.name, valid |-> call.valid,
     outcome |-> outcome, detail |-> detail]

\* maxAgenticIterations || 5.
IterationCap ==
    IF maxAgenticIterations = 0 THEN DefaultMaxAgenticIterations
    ELSE maxAgenticIterations

\* The largest maxToolCalls a session is constructed with.
MaxToolCallsOption ==
    1

InitChat ==
    /\ agenticMode \in BOOLEAN
    /\ maxAgenticIterations \in 1..MaxIterations
    /\ maxToolCalls \in 1..MaxToolCallsOption
    /\ mcpService \in BOOLEAN
    /\ mode = "chat"
    /\ chatPc = "idle"
    /\ history = <<>>
    /\ toolCallResults = <<>>
    /\ invocations = <<>>
    /\ iterations = 0
    /\ toolCalls = <<>>
    /\ callIndex = 0
    /\ assistantContent = <<>>
    /\ returned = <<>>
    /\ rounds = <<>>
    /\ chunks = 0
    /\ abandoned = 0
    /\ protocol = "auto"
    /\ format = "auto"
    /\ text = <<>>
    /\ NoStream
    /\ NoSegments
    /\ AtRest

\* What an episode never changes.
ChatFrame ==
    UNCHANGED <<protocol, format, text, streamVars, segmentVars, restVars,
                agenticMode, maxAgenticIterations, maxToolCalls, mcpService>>

\* chat() or stream() returns value, after n counted iterations.
ReturnAfter(h, value, n) ==
    /\ chatPc' = "returned"
    /\ history' = h
    /\ returned' = value
    /\ iterations' = n

Return(h, value) ==
    ReturnAfter(h, value, iterations)

\* The end of a round with the cap tested after one more iteration.
EndRoundOneMore(h, content, calls) ==
    IF ~agenticMode \/ calls = <<>> THEN Return(h, content)
    ELSE IF iterations + 1 <= IterationCap
        THEN /\ chatPc' = "completion"
             /\ history' = h
             /\ iterations' = iterations + 1
             /\ UNCHANGED returned
    ELSE ReturnAfter(h, <<>>, iterations + 1)

\* The end of a round that asks the model again whether or not the round had
\* a tool call.
EndRoundIgnoringCalls(h, content, calls) ==
    IF ~agenticMode THEN Return(h, content)
    ELSE IF iterations + 1 < IterationCap
        THEN /\ chatPc' = "completion"
             /\ history' = h
             /\ iterations' = iterations + 1
             /\ UNCHANGED returned
    ELSE ReturnAfter(h, IF calls = <<>> THEN content ELSE <<>>, iterations + 1)

\* The end of a round of chat(), the history standing at h: singleTurnChat
\* returns the content; agenticChat returns it when the round had no tool
\* call, and else counts the iteration and asks the model again while the
\* count is under the cap, returning '' when it is not.
EndRound(h, content, calls) ==
    IF ~agenticMode \/ calls = <<>> THEN Return(h, content)
    ELSE IF iterations + 1 < IterationCap
        THEN /\ chatPc' = "completion"
             /\ history' = h
             /\ iterations' = iterations + 1
             /\ UNCHANGED returned
    ELSE ReturnAfter(h, <<>>, iterations + 1)

\* executeToolCalls has returned, the history standing at h: chat() ends its
\* round, stream() adds its assistant message and returns.
AfterExecute(h) ==
    IF mode = "chat" THEN EndRound(h, assistantContent, toolCalls)
    ELSE Return(WithAssistantMessage(h, assistantContent), assistantContent)

\* The end of one pass of executeToolCalls' for loop, the history standing
\* at h.
NextCall(h) ==
    /\ IF callIndex < Len(toolCalls)
       THEN /\ chatPc' = "execute"
            /\ callIndex' = callIndex + 1
            /\ history' = h
            /\ UNCHANGED <<iterations, returned>>
       ELSE /\ AfterExecute(h)
            /\ UNCHANGED callIndex
    /\ UNCHANGED <<mode, toolCalls, assistantContent, rounds, chunks>>
    /\ ChatFrame

\* The try branch: the result is recorded and a 'tool' message appended.
Succeed(call) ==
    /\ toolCallResults' =
          Append(toolCallResults, ToolCallResult(call, "result", "done"))
    /\ NextCall(Append(history, ChatMessage("tool", call.name, <<"done">>)))

\* The catch branch appending a 'tool' message with the error.
FailWithToolMessage(call, errorMsg) ==
    /\ toolCallResults' =
          Append(toolCallResults, ToolCallResult(call, "error", errorMsg))
    /\ NextCall(Append(history, ChatMessage("tool", call.name, <<errorMsg>>)))

\* The catch branch recording the error and giving up the turn.
FailAborting(call, errorMsg) ==
    /\ toolCallResults' =
          Append(toolCallResults, ToolCallResult(call, "error", errorMsg))
    /\ chatPc' = "thrown"
    /\ history' =
          Append(history,
                 ChatMessage("assistant", "",
                             <<"Error executing ", call.name, ": ", errorMsg>>))
    /\ UNCHANGED <<mode, iterations, toolCalls, callIndex, assistantContent,
                   returned, rounds, chunks>>
    /\ ChatFrame

\* The catch branch: the error is recorded and an assistant message appended.
Fail(call, errorMsg) ==
    /\ toolCallResults' =
          Append(toolCallResults, ToolCallResult(call, "error", errorMsg))
    /\ NextCall(Append(history,
                       ChatMessage("assistant", "",
                                   <<"Error executing ", call.name, ": ", errorMsg>>)))

\* chat(message): the user message is added and the model is asked.
chat ==
    /\ chatPc = "idle"
    /\ mode' = "chat"
    /\ chatPc' = "completion"
    /\ history' = Append(history, UserMessage)
    /\ UNCHANGED <<toolCallResults, invocations, iterations, toolCalls,
                   callIndex, assistantContent, returned, rounds, chunks,
                   abandoned>>
    /\ ChatFrame

\* stream(message): the user message is added and the model streams.
stream ==
    /\ chatPc = "idle"
    /\ mode' = "stream"
    /\ chatPc' = "streaming"
    /\ history' = Append(history, UserMessage)
    /\ UNCHANGED <<toolCallResults, invocations, iterations, toolCalls,
                   callIndex, assistantContent, returned, rounds, chunks,
                   abandoned>>
    /\ ChatFrame

\* processSegments(segs) up to its first await, content and calls being
\* what its loop collected: the assistant message is added, then the calls
\* are executed when there are any and an MCPService to execute them.
ProcessSegments(content, calls) ==
    /\ assistantContent' = content
    /\ toolCalls' = calls
    /\ rounds' = Append(rounds, Round(content, calls))
    /\ IF calls # <<>> /\ mcpService
       THEN /\ chatPc' = "execute"
            /\ callIndex' = 1
            /\ history' = WithAssistantMessage(history, content)
            /\ UNCHANGED <<iterations, returned>>
       ELSE /\ EndRound(WithAssistantMessage(history, content), content, calls)
            /\ UNCHANGED callIndex
    /\ UNCHANGED <<mode, toolCallResults, invocations, chunks, abandoned>>
    /\ ChatFrame

\* provider.completion resolves and the round's segments are processed.
completion ==
    /\ chatPc = "completion"
    /\ \E segs \in Responses : ProcessSegments(JoinContent(segs), CallsOf(segs))

\* The provider's error recovered locally: an assistant message tells of it
\* and the call returns.
RecoverLocally ==
    /\ chatPc' = "returned"
    /\ history' = Append(history, ChatMessage("assistant", "", <<"Error">>))
    /\ UNCHANGED <<mode, toolCallResults, invocations, iterations,
                   toolCalls, callIndex, assistantContent, returned, rounds,
                   chunks, abandoned>>
    /\ ChatFrame

\* The await of the provider rejects: the catch of chat() or of stream()
\* rethrows the error to the caller.
Rethrow ==
    /\ chatPc' = "thrown"
    /\ UNCHANGED <<mode, history, toolCallResults, invocations, iterations,
                   toolCalls, callIndex, assistantContent, returned, rounds,
                   chunks, abandoned>>
    /\ ChatFrame

\* provider.completion rejects.
completionRejects ==
    /\ chatPc = "completion"
    /\ Rethrow

\* provider.stream rejects, before its first chunk or after some.
streamRejects ==
    /\ chatPc = "streaming"
    /\ Rethrow

\* The chunk callback of stream(): pushToken's segments are collected, the
\* content into finalContent and the calls into pendingToolCalls.
HandleChunk(content, calls) ==
    /\ assistantContent' = assistantContent \o content
    /\ toolCalls' = toolCalls \o calls
    /\ chunks' = chunks + 1
    /\ UNCHANGED <<mode, chatPc, history, toolCallResults, invocations,
                   iterations, callIndex, returned, rounds, abandoned>>
    /\ ChatFrame

\* provider.stream delivers a chunk.
streamChunk ==
    /\ chatPc = "streaming"
    /\ chunks < MaxTokens
    /\ \E segs \in TokenSegments :
          HandleChunk(JoinContent(segs), NormalizedCalls(CallsOf(segs)))

\* The rest of stream() once provider.stream has resolved, the chunk
\* callback and finalize() having collected content and calls: the pending
\* calls are executed, if any, before the assistant message is added.
StreamEnds(content, calls) ==
    /\ assistantContent' = content
    /\ toolCalls' = calls
    /\ rounds' = Append(rounds, Round(content, calls))
    /\ IF calls # <<>>
       THEN /\ chatPc' = "execute"
            /\ callIndex' = 1
            /\ UNCHANGED <<history, iterations, returned>>
       ELSE /\ Return(WithAssistantMessage(history, content), content)
            /\ UNCHANGED callIndex
    /\ UNCHANGED <<mode, toolCallResults, invocations, chunks, abandoned>>
    /\ ChatFrame

\* provider.stream resolves; finalize() pushes '' into a buffer that every
\* push has left without a decodable block, and so adds no call.
streamed ==
    /\ chatPc = "streaming"
    /\ StreamEnds(assistantContent, toolCalls)

\* The handler invoked and not awaited: the loop goes on to the next call.
ExecuteToolWithoutAwait(call) ==
    /\ invocations' = Append(invocations, call)
    /\ NextCall(history)
    /\ UNCHANGED <<toolCallResults, abandoned>>

\* The handler invoked whatever the call's name and arguments.
ExecuteToolUnchecked(call) ==
    /\ invocations' = Append(invocations, call)
    /\ chatPc' = "race"
    /\ UNCHANGED <<mode, history, toolCallResults, iterations, toolCalls,
                   callIndex, assistantContent, returned, rounds, chunks,
                   abandoned>>
    /\ ChatFrame

\* One pass of executeToolCalls up to the race: without an MCPService the
\* pass throws; executeTool rejects for an unregistered name and for
\* arguments the schema refuses; else the handler is invoked.
ExecuteTool(call) ==
    IF ~mcpService THEN
        Fail(call, "MCP service not available") /\ UNCHANGED <<invocations, abandoned>>
    ELSE IF call.name \notin RegisteredTools THEN
        Fail(call, "Tool not found") /\ UNCHANGED <<invocations, abandoned>>
    ELSE IF ~call.valid THEN
        Fail(call, "invalid arguments") /\ UNCHANGED <<invocations, abandoned>>
    ELSE
        /\ invocations' = Append(invocations, call)
        /\ chatPc' = "race"
        /\ UNCHANGED <<mode, history, toolCallResults, iterations, toolCalls,
                       callIndex, assistantContent, returned, rounds, chunks,
                       abandoned>>
        /\ ChatFrame

executeTool ==
    /\ chatPc = "execute"
    /\ ExecuteTool(toolCalls[callIndex])

\* The handler's promise resolves before the timeout.
handlerResolves ==
    /\ chatPc = "race"
    /\ Succeed(toolCalls[callIndex])
    /\ UNCHANGED <<invocations, abandoned>>

\* The handler's promise rejects before the timeout.
handlerRejects ==
    /\ chatPc = "race"
    /\ Fail(toolCalls[callIndex], "handler failed")
    /\ UNCHANGED <<invocations, abandoned>>

\* The timeout of the race fires first.
toolCallTimeout ==
    /\ chatPc = "race"
    /\ Fail(toolCalls[callIndex], "Tool call timeout")
    /\ abandoned' = abandoned + 1
    /\ UNCHANGED invocations

\* A late settlement handled like one in time: a result is recorded and a
\* 'tool' message appended.
handlerSettlesLateRecorded ==
    /\ abandoned > 0
    /\ abandoned' = abandoned - 1
    /\ toolCallResults' =
          Append(toolCallResults,
                 ToolCallResult(invocations[Len(invocations)], "result", "done"))
    /\ history' =
          Append(history,
                 ChatMessage("tool", invocations[Len(invocations)].name, <<"done">>))
    /\ UNCHANGED <<mode, chatPc, invocations, iterations, toolCalls, callIndex,
                   assistantContent, returned, rounds, chunks>>
    /\ ChatFrame

\* A handler that lost its race settles: Promise.race has settled already,
\* and nothing of the session hears of it.
handlerSettlesLate ==
    /\ abandoned > 0
    /\ abandoned' = abandoned - 1
    /\ UNCHANGED <<mode, chatPc, history, toolCallResults, invocations,
                   iterations, toolCalls, callIndex, assistantContent,
                   returned, rounds, chunks>>
    /\ ChatFrame

NextChat ==
    \/ chat
    \/ stream
    \/ completion
    \/ completionRejects
    \/ streamChunk
    \/ streamRejects
    \/ streamed
    \/ executeTool
    \/ handlerResolves
    \/ handlerRejects
    \/ toolCallTimeout
    \/ handlerSettlesLate

SpecChat ==
    InitChat /\ [][NextChat]_vars

\* ------------------------------------------------- parseToolCallPayload

\* One-character strings as sequences.
QuoteChar ==
    <<"\"">>

NameElement ==
    NameOpen \o <<"x">> \o NameClose

\* The payloads handed to parseToolCallPayload: JSON, text cut short, the
\* empty payload, plain text, XML, two objects in a row and an object followed
\* by a brace, each bare or with text before and after it.
PayloadCores ==
    {PayloadX, PayloadBad, <<>>, <<"x">>, NameElement,
     PayloadX \o PayloadY, PayloadX \o <<" ", "}">>}

PayloadPrefixes ==
    {<<>>, <<"a">>, <<"{">>, QuoteChar}

PayloadSuffixes ==
    {<<>>, <<"b">>}

Payloads ==
    {pre \o core \o post :
        pre \in PayloadPrefixes, core \in PayloadCores, post \in PayloadSuffixes}

InitDecode ==
    /\ format \in Formats
    /\ text \in Payloads
    /\ protocol = "auto"
    /\ NoStream
    /\ NoSegments
    /\ NoChat
    /\ NoDecode
    /\ NoTurns
    /\ NoHandle
    /\ NoLegacy
    /\ NoAstream
    /\ NoUtil

\* parseToolCallPayload(text, format) is called.
decode ==
    /\ decodePc = "ready"
    /\ decoded' = parseToolCallPayload(text, format)
    /\ decodePc' = "done"
    /\ UNCHANGED <<protocol, format, text, streamVars, segmentVars, chatVars,
                   turnVars, handleVars, legacyVars, astreamVars, utilVars>>

NextDecode ==
    decode

SpecDecode ==
    InitDecode /\ [][NextDecode]_vars

\* ------------------------------- chat() calls sharing one ChatSession

\* The most tool calls the response of one chat() call holds.
MaxTurnCalls ==
    3

\* How many results getRecentToolCalls returns: toolCallResults.slice(-5).
RecentToolCalls ==
    5

\* A message of the shared history, with the chat() call that added it.
TurnMessage(t, role) ==
    [turn |-> t, role |-> role]

\* A session with an MCPService and agenticMode off, on which the caller
\* makes the chat() calls of Turns without awaiting one before the next.
InitTurns ==
    /\ NoTurns
    /\ NoDecode
    /\ NoHandle
    /\ NoLegacy
    /\ NoAstream
    /\ NoUtil
    /\ protocol = "auto"
    /\ format = "auto"
    /\ text = <<>>
    /\ NoStream
    /\ NoSegments
    /\ NoChat

TurnFrame ==
    UNCHANGED <<protocol, format, text, streamVars, segmentVars, chatVars,
                decodeVars, handleVars, legacyVars, astreamVars, utilVars>>

\* chat(message) of turn t up to its await of provider.completion: the user
\* message is added.
turnChat(t) ==
    /\ turnPc[t] = "idle"
    /\ sessionHistory' = Append(sessionHistory, TurnMessage(t, "user"))
    /\ turnPc' = [turnPc EXCEPT ![t] = "completion"]
    /\ UNCHANGED <<turnCalls, sessionResults>>
    /\ TurnFrame

\* The history after processSegments has added the assistant message, when
\* the content is not blank.
WithTurnContent(t, hasContent) ==
    IF hasContent THEN Append(sessionHistory, TurnMessage(t, "assistant"))
    ELSE sessionHistory

\* provider.completion of turn t resolves with n tool calls: processSegments
\* adds the assistant message and executeToolCalls runs up to its first
\* await, or chat() returns when there is no call.
turnCompletion(t) ==
    /\ turnPc[t] = "completion"
    /\ \E hasContent \in BOOLEAN, n \in 0..MaxTurnCalls :
          /\ sessionHistory' = WithTurnContent(t, hasContent)
          /\ turnCalls' = [turnCalls EXCEPT ![t] = n]
          /\ turnPc' = [turnPc EXCEPT ![t] = IF n = 0 THEN "returned" ELSE "race"]
    /\ UNCHANGED sessionResults
    /\ TurnFrame

\* The race of turn t's current call settles: the result is pushed, the
\* 'tool' or the error message added, and the loop runs up to the await of
\* the next call, or chat() returns after the last.
turnCallSettles(t) ==
    /\ turnPc[t] = "race"
    /\ \E role \in {"tool", "assistant"} :
          sessionHistory' = Append(sessionHistory, TurnMessage(t, role))
    /\ sessionResults' = Append(sessionResults, t)
    /\ turnCalls' = [turnCalls EXCEPT ![t] = turnCalls[t] - 1]
    /\ turnPc' = [turnPc EXCEPT ![t] = IF turnCalls[t] = 1 THEN "returned"
                                       ELSE "race"]
    /\ TurnFrame

NextTurns ==
    \E t \in Turns :
        \/ turnChat(t)
        \/ turnCompletion(t)
        \/ turnCallSettles(t)

SpecTurns ==
    InitTurns /\ [][NextTurns]_vars

\* ----------------------------------------- handleToolCallFromModelOutput

\* The most calls one model output holds.
MaxDetected ==
    2

\* A detected call: its id and tool_call_id ("" when absent), and whether
\* its name is that of a registered tool with arguments the schema accepts
\* ("ok"), of one with arguments it refuses ("invalid"), or of none
\* ("unknown").
DetectedCalls ==
    [id : {"", "a", "b"}, tool_call_id : {"", "a"},
     kind : {"ok", "invalid", "unknown"}]

DetectedCallLists ==
    UNION {[1..n -> DetectedCalls] : n \in 0..MaxDetected}

\* toolCall.id || toolCall.tool_call_id.
CallIdOf(toolCall) ==
    IF toolCall.id # "" THEN toolCall.id ELSE toolCall.tool_call_id

\* The test that never finds a call in the set.
NeverSeen(toolCall) ==
    FALSE

\* callId && seenIds.has(callId).
AlreadySeen(toolCall) ==
    CallIdOf(toolCall) # "" /\ CallIdOf(toolCall) \in seenIds

\* if (callId) seenIds.add(callId).
WithCallId(toolCall) ==
    IF CallIdOf(toolCall) # "" THEN seenIds \cup {CallIdOf(toolCall)} ELSE seenIds

HandleResult(toolCall, outcome) ==
    [id |-> CallIdOf(toolCall), kind |-> toolCall.kind, outcome |-> outcome]

HandleMessage(role, toolCall) ==
    [role |-> role, id |-> CallIdOf(toolCall), kind |-> toolCall.kind]

\* The call of the model output without tool calls, for the message and the
\* result of the plain output.
PlainOutput ==
    [id |-> "", tool_call_id |-> "", kind |-> "none"]

InitHandle ==
    /\ passesSet \in BOOLEAN
    /\ seenIds = {}
    /\ handlePc = "idle"
    /\ handleCalls = <<>>
    /\ handleIndex = 0
    /\ handleResults = <<>>
    /\ handleMessages = <<>>
    /\ handleInvoked = <<>>
    /\ NoDecode
    /\ NoTurns
    /\ NoLegacy
    /\ NoAstream
    /\ NoUtil
    /\ protocol = "auto"
    /\ format = "auto"
    /\ text = <<>>
    /\ NoStream
    /\ NoSegments
    /\ NoChat

HandleFrame ==
    UNCHANGED <<protocol, format, text, streamVars, segmentVars, chatVars,
                decodeVars, turnVars, legacyVars, astreamVars, utilVars, passesSet>>

\* processedToolCallIds || new Set(): the caller's set, or an empty one.
SetAtStart ==
    IF passesSet THEN seenIds ELSE {}

\* The invocation from its start to the first pass of the loop, or to its
\* end when the output holds no call: the output becomes an assistant
\* message and the only result.
handleStart ==
    /\ handlePc \in {"idle", "done"}
    /\ \E calls \in DetectedCallLists :
          /\ handleCalls' = calls
          /\ IF calls = <<>>
             THEN /\ handlePc' = "done"
                  /\ handleIndex' = 0
                  /\ handleMessages' = <<HandleMessage("assistant", PlainOutput)>>
                  /\ handleResults' = <<HandleResult(PlainOutput, "result")>>
             ELSE /\ handlePc' = "loop"
                  /\ handleIndex' = 1
                  /\ handleMessages' = <<>>
                  /\ handleResults' = <<>>
    /\ seenIds' = SetAtStart
    /\ handleInvoked' = <<>>
    /\ HandleFrame

\* The end of a pass: the next call, or the return after the last.
NextPass ==
    IF handleIndex < Len(handleCalls)
    THEN handlePc' = "loop" /\ handleIndex' = handleIndex + 1
    ELSE handlePc' = "done" /\ UNCHANGED handleIndex

\* A pass ends with an error: an assistant message and a result with error.
PassFails(toolCall) ==
    /\ handleMessages' = Append(handleMessages, HandleMessage("assistant", toolCall))
    /\ handleResults' = Append(handleResults, HandleResult(toolCall, "error"))
    /\ NextPass

\* One pass of the loop up to its await: a call whose id is in the set is
\* skipped; else the id is put in the set, and the call fails on an unknown
\* name or on arguments the schema refuses, or its handler is invoked.
HandlePass(toolCall) ==
    IF AlreadySeen(toolCall) THEN
        /\ NextPass
        /\ UNCHANGED <<seenIds, handleMessages, handleResults, handleInvoked>>
    ELSE IF toolCall.kind # "ok" THEN
        /\ seenIds' = WithCallId(toolCall)
        /\ PassFails(toolCall)
        /\ UNCHANGED handleInvoked
    ELSE
        /\ seenIds' = WithCallId(toolCall)
        /\ handleInvoked' = Append(handleInvoked, toolCall)
        /\ handlePc' = "await"
        /\ UNCHANGED <<handleIndex, handleMessages, handleResults>>

handlePass ==
    /\ handlePc = "loop"
    /\ HandlePass(handleCalls[handleIndex])
    /\ UNCHANGED handleCalls
    /\ HandleFrame

\* tool.handler resolves: a 'tool' message and a result.
handleResolves ==
    /\ handlePc = "await"
    /\ handleMessages' =
          Append(handleMessages, HandleMessage("tool", handleCalls[handleIndex]))
    /\ handleResults' =
          Append(handleResults, HandleResult(handleCalls[handleIndex], "result"))
    /\ NextPass
    /\ UNCHANGED <<seenIds, handleCalls, handleInvoked>>
    /\ HandleFrame

\* tool.handler rejects: the catch branch.
handleRejects ==
    /\ handlePc = "await"
    /\ PassFails(handleCalls[handleIndex])
    /\ UNCHANGED <<seenIds, handleCalls, handleInvoked>>
    /\ HandleFrame

NextHandle ==
    \/ handleStart
    \/ handlePass
    \/ handleResolves
    \/ handleRejects

SpecHandle ==
    InitHandle /\ [][NextHandle]_vars

\* ---------------------------------------- LegacyChatSession.astream_chat

\* The most tokens one completion delivers.
MaxLegacyTokens ==
    3

\* A call the buffer reports: its id ("" when absent) and whether its name
\* is that of a registered tool ("ok") or not ("unknown"); "none" stands for
\* a token that completes no call.
LegacyCalls ==
    [id : {"", "a"}, kind : {"ok", "unknown", "none"}]

\* A message of the history; a 'tool' message carries the number of the
\* token that reported its call.
LegacyMessage(role, n) ==
    [role |-> role, call |-> n]

InitLegacy ==
    /\ NoLegacy
    /\ NoDecode
    /\ NoTurns
    /\ NoHandle
    /\ NoAstream
    /\ NoUtil
    /\ protocol = "auto"
    /\ format = "auto"
    /\ text = <<>>
    /\ NoStream
    /\ NoSegments
    /\ NoChat

LegacyFrame ==
    UNCHANGED <<protocol, format, text, streamVars, segmentVars, chatVars,
                decodeVars, turnVars, handleVars, astreamVars, utilVars>>

\* astream_chat up to its await of context.completion: the user message is
\* added.
astream_chat ==
    /\ legacyPc = "idle"
    /\ legacyPc' = "streaming"
    /\ legacyHistory' = Append(legacyHistory, LegacyMessage("user", 0))
    /\ UNCHANGED <<legacyTokens, legacyContent, legacyIds, legacyPending>>
    /\ LegacyFrame

\* processParsedToolCall(call, processedIds) up to its await, for the call
\* of token n: a call whose id is in the set returns at once; else the id is
\* put in the set, and the call of an unregistered tool adds its error
\* message in the catch branch, and else the handler is invoked and awaited.
processParsedToolCall(call, n) ==
    IF call.id # "" /\ call.id \in legacyIds THEN
        UNCHANGED <<legacyIds, legacyHistory, legacyPending>>
    ELSE
        /\ legacyIds' = IF call.id # "" THEN legacyIds \cup {call.id} ELSE legacyIds
        /\ IF call.kind = "unknown"
           THEN /\ legacyHistory' = Append(legacyHistory, LegacyMessage("tool", n))
                /\ UNCHANGED legacyPending
           ELSE /\ legacyPending' = legacyPending \cup {n}
                /\ UNCHANGED legacyHistory

\* partialHandler(partial): the visible text grows and the call the token
\* completes, if any, is handed to processParsedToolCall, which is not
\* awaited.
partialHandler ==
    /\ legacyPc = "streaming"
    /\ legacyTokens < MaxLegacyTokens
    /\ legacyTokens' = legacyTokens + 1
    /\ \E hasText \in BOOLEAN : legacyContent' = (legacyContent \/ hasText)
    /\ \E call \in LegacyCalls :
          IF call.kind = "none"
          THEN UNCHANGED <<legacyIds, legacyHistory, legacyPending>>
          ELSE processParsedToolCall(call, legacyTokens + 1)
    /\ UNCHANGED legacyPc
    /\ LegacyFrame

\* The handler of a call settles: processParsedToolCall adds the 'tool'
\* message of the result or of the error.
legacyHandlerSettles ==
    /\ \E n \in legacyPending :
          /\ legacyHistory' = Append(legacyHistory, LegacyMessage("tool", n))
          /\ legacyPending' = legacyPending \ {n}
    /\ UNCHANGED <<legacyPc, legacyTokens, legacyContent, legacyIds>>
    /\ LegacyFrame

\* context.completion resolves: push('') reports no call, the assistant
\* message is added when the visible text is not blank, and astream_chat
\* returns.
legacyCompletion ==
    /\ legacyPc = "streaming"
    /\ legacyPc' = "returned"
    /\ legacyHistory' =
          IF legacyContent
          THEN Append(legacyHistory, LegacyMessage("assistant", 0))
          ELSE legacyHistory
    /\ UNCHANGED <<legacyTokens, legacyContent, legacyIds, legacyPending>>
    /\ LegacyFrame

NextLegacy ==
    \/ astream_chat
    \/ partialHandler
    \/ legacyHandlerSettles
    \/ legacyCompletion

SpecLegacy ==
    InitLegacy /\ [][NextLegacy]_vars

\* ------------------------- LegacyChatSession.astream_chat on a streamed text

\* The template protocols of the models streamed.
TemplateProtocols ==
    {"none", "tool_use"}

\* The protocol astream_chat builds its StreamingToolCallBuffer with.
BufferProtocol(p) ==
    IF p = "none" THEN "auto" ELSE p

\* The tools registered with the session's MCPService, by name.
AstreamTools ==
    {<<"x">>}

\* toolCall.name of a decoded call (empty when it has none).
CallName(call) ==
    IF \E i \in 1..Len(call.kv) : call.kv[i].k = KeyName
    THEN (CHOOSE m \in {call.kv[i] : i \in 1..Len(call.kv)} : m.k = KeyName).v.s
    ELSE <<>>

\* processParsedToolCall reaches tool.handler for the call: it has the name
\* of a registered tool.
HandlerReached(call) ==
    CallName(call) \in AstreamTools

\* The calls whose handler astream_chat has invoked: the calls the buffer
\* reported that reach a handler.
HandlersInvoked ==
    SelectSeq(reported, HandlerReached)

\* astream_chat awaiting context.completion over the text: the buffer is
\* built for the template's protocol and format.
InitAstream ==
    /\ templateProtocol \in TemplateProtocols
    /\ combineContentSegments \in BOOLEAN
    /\ astreamPc = "streaming"
    /\ astreamMessage = NoMessage
    /\ astreamReturned = <<>>
    /\ protocol = BufferProtocol(templateProtocol)
    /\ format = "json"
    /\ text \in StreamTexts
    /\ NoStream
    /\ NoSegments
    /\ NoChat
    /\ NoDecode
    /\ NoTurns
    /\ NoHandle
    /\ NoLegacy
    /\ NoUtil

\* partialHandler(partial) on the next chunk: the push, the visible buffer
\* and the new segment, which goes to contentBuffer or to onPartial
\* (`contentBuffer` is astream_chat's visibleBuffer, `emitted` the segments
\* delivered).
astreamToken ==
    /\ astreamPc = "streaming"
    /\ pushToken

\* The final visible text message and the return value.
AstreamReturn(content, visible) ==
    /\ astreamPc' = "returned"
    /\ IF combineContentSegments /\ Trim(content) # <<>>
       THEN /\ astreamMessage' = [added |-> TRUE, content |-> content]
            /\ astreamReturned' = visible \o content
       ELSE IF ~combineContentSegments /\ Trim(visible) # <<>>
       THEN /\ astreamMessage' = [added |-> TRUE, content |-> visible]
            /\ astreamReturned' = visible
       ELSE /\ astreamMessage' = NoMessage
            /\ astreamReturned' = visible

\* What follows the await of context.completion, tcBuffer.push('') having
\* returned `pushed`.
AstreamAfterPush(pushed) ==
    /\ buffer' = pushed.buffer
    /\ reported' = reported \o pushed.calls
    /\ AstreamReturn(IF combineContentSegments THEN emitted ELSE <<>>,
                     contentBuffer)
    /\ UNCHANGED <<protocol, format, text, pos, contentBuffer, lastVisibleIndex,
                   emitted, segmentVars, chatVars, decodeVars, turnVars,
                   handleVars, legacyVars, utilVars, templateProtocol,
                   combineContentSegments>>

\* context.completion resolves, the whole text delivered.
astreamEnds ==
    /\ astreamPc = "streaming"
    /\ pos = Len(text)
    /\ AstreamAfterPush(BufferPush(buffer, <<>>, protocol, format))

NextAstream ==
    \/ astreamToken
    \/ astreamEnds

SpecAstream ==
    InitAstream /\ [][NextAstream]_vars

\* --------------------------------------- RetryHandler, HTTPRetryHandler

\* The largest maxAttempts a handler is constructed with.
MaxAttempts ==
    3

\* How an invocation of the wrapped operation settles: it resolves, or it
\* rejects with an error whose message holds '429', with another retryable
\* error, or with an error that is not retryable.
Outcomes ==
    {"ok", "rate limited", "retryable", "fatal"}

isRetryableError(error) ==
    error \in {"rate limited", "retryable"}

\* execute(operation) or executeWithRetryAfter(operation, getRetryAfter) is
\* called: the for loop stands at its first attempt.
InitRetry ==
    /\ retryKind \in {"execute", "executeWithRetryAfter"}
    /\ maxAttempts \in 1..MaxAttempts
    /\ attempt = 1
    /\ retryPc = "attempt"
    /\ operationCalls = 0
    /\ operationLog = <<>>
    /\ NoAgent
    /\ NoDecode
    /\ NoTurns
    /\ NoHandle
    /\ NoLegacy
    /\ NoAstream
    /\ protocol = "auto"
    /\ format = "auto"
    /\ text = <<>>
    /\ NoStream
    /\ NoSegments
    /\ NoChat

RetryFrame ==
    UNCHANGED <<protocol, format, text, streamVars, segmentVars, chatVars,
                decodeVars, turnVars, handleVars, legacyVars, astreamVars,
                agentVars, retryKind, maxAttempts>>

\* The try block of execute invokes the operation (through the wrapper of
\* executeWithRetryAfter, when that is the method called).
invokeOperation ==
    /\ retryPc = "attempt"
    /\ retryPc' = "awaiting"
    /\ operationCalls' = operationCalls + 1
    /\ UNCHANGED <<attempt, operationLog>>
    /\ RetryFrame

\* The catch block of execute: a non-retryable error and the error of the
\* last attempt are thrown, else execute sleeps.
Caught(error) ==
    /\ retryPc' = IF ~isRetryableError(error) \/ attempt = maxAttempts
                  THEN "thrown" ELSE "sleeping"
    /\ UNCHANGED <<attempt, operationCalls>>

\* What the attempt does with its operation settled: the result is
\* returned; in executeWithRetryAfter an error holding '429' with a positive
\* retry-after makes the wrapper sleep; any other error reaches the catch
\* block of execute.
Settled(outcome, retryAfter) ==
    IF outcome = "ok" THEN
        retryPc' = "returned" /\ UNCHANGED <<attempt, operationCalls>>
    ELSE IF /\ retryKind = "executeWithRetryAfter"
            /\ outcome = "rate limited"
            /\ retryAfter > 0 THEN
        retryPc' = "waiting" /\ UNCHANGED <<attempt, operationCalls>>
    ELSE
        Caught(outcome)

\* The operation invoked by the attempt settles.
operationSettles ==
    /\ retryPc = "awaiting"
    /\ \E outcome \in Outcomes, retryAfter \in {0, 1} :
          /\ operationLog' = Append(operationLog, outcome)
          /\ Settled(outcome, retryAfter)
    /\ RetryFrame

\* sleep(delay) is over: the loop goes on to the next attempt.
sleepEnds ==
    /\ retryPc = "sleeping"
    /\ retryPc' = "attempt"
    /\ attempt' = attempt + 1
    /\ UNCHANGED <<operationCalls, operationLog>>
    /\ RetryFrame

\* sleep(retryAfterMs) is over: the wrapper of executeWithRetryAfter invokes
\* the operation again.
retryAfterEnds ==
    /\ retryPc = "waiting"
    /\ retryPc' = "awaiting again"
    /\ operationCalls' = operationCalls + 1
    /\ UNCHANGED <<attempt, operationLog>>
    /\ RetryFrame

\* The operation invoked again by the wrapper settles: its result is the
\* wrapper's, its error reaches the catch block of execute.
secondCallSettles ==
    /\ retryPc = "awaiting again"
    /\ \E outcome \in Outcomes :
          /\ operationLog' = Append(operationLog, outcome)
          /\ Settled(outcome, 0)
    /\ RetryFrame

NextRetry ==
    \/ invokeOperation
    \/ operationSettles
    \/ sleepEnds
    \/ retryAfterEnds
    \/ secondCallSettles

SpecRetry ==
    InitRetry /\ [][NextRetry]_vars

\* ------------------------------------------------- Agent and MCPService

\* The tools added to the agent with addTool before any call.
LocalTools ==
    {"b"}

\* What the MCP server may list.
ServerLists ==
    {<<"a">>, <<"a", "b">>, <<"b", "a">>}

RECURSIVE RegisterAll(_, _)

\* The for loop of initializeMcpTools over the listed tools: registerTool
\* adds each name and throws at the first one already registered.
RegisterAll(registry, listed) ==
    IF listed = <<>> THEN [tools |-> registry, ok |-> TRUE]
    ELSE IF Head(listed) \in registry THEN [tools |-> registry, ok |-> FALSE]
    ELSE RegisterAll(registry \cup {Head(listed)}, Tail(listed))

\* An Agent configured with one MCP server, its local tools added.
InitAgent ==
    /\ isRunning = FALSE
    /\ agentPc = [c \in AgentCalls |-> "idle"]
    /\ tools \in SUBSET LocalTools
    /\ mcpInitialized = FALSE
    /\ serverTools \in ServerLists
    /\ NoRetry
    /\ NoDecode
    /\ NoTurns
    /\ NoHandle
    /\ NoLegacy
    /\ NoAstream
    /\ protocol = "auto"
    /\ format = "auto"
    /\ text = <<>>
    /\ NoStream
    /\ NoSegments
    /\ NoChat

AgentFrame ==
    UNCHANGED <<protocol, format, text, streamVars, segmentVars, chatVars,
                decodeVars, turnVars, handleVars, legacyVars, astreamVars,
                retryVars, serverTools>>

\* The finally block of execute and of stream, the call c having returned or
\* thrown.
Finally(c, pc) ==
    /\ agentPc' = [agentPc EXCEPT ![c] = pc]
    /\ isRunning' = FALSE

\* execute(task) or stream(task) up to its first await that yields:
\* isRunning is set; initializeMCPServices returns at once when
\* mcpInitialized, and else awaits client.listTools() in initializeMcpTools.
agentStart(c) ==
    /\ agentPc[c] = "idle"
    /\ isRunning' = TRUE
    /\ agentPc' = [agentPc EXCEPT
                      ![c] = IF mcpInitialized THEN "chatting" ELSE "initializing"]
    /\ UNCHANGED <<tools, mcpInitialized>>
    /\ AgentFrame

\* initializeMcpTools with the tools listed, the loop having ended as
\* `registered` tells: mcpInitialized is set when it did not throw.
Initialized(c, registered) ==
    /\ tools' = registered.tools
    /\ IF registered.ok
       THEN /\ mcpInitialized' = TRUE
            /\ agentPc' = [agentPc EXCEPT ![c] = "chatting"]
            /\ UNCHANGED isRunning
       ELSE /\ UNCHANGED mcpInitialized
            /\ Finally(c, "thrown")

\* client.listTools() resolves.
listToolsResolves(c) ==
    /\ agentPc[c] = "initializing"
    /\ Initialized(c, RegisterAll(tools, serverTools))
    /\ AgentFrame

\* client.listTools() rejects: the transport failed.
listToolsRejects(c) ==
    /\ agentPc[c] = "initializing"
    /\ Finally(c, "thrown")
    /\ UNCHANGED <<tools, mcpInitialized>>
    /\ AgentFrame

\* session.chat or session.stream resolves.
sessionResolves(c) ==
    /\ agentPc[c] = "chatting"
    /\ Finally(c, "returned")
    /\ UNCHANGED <<tools, mcpInitialized>>
    /\ AgentFrame

\* session.chat or session.stream rejects.
sessionRejects(c) ==
    /\ agentPc[c] = "chatting"
    /\ Finally(c, "thrown")
    /\ UNCHANGED <<tools, mcpInitialized>>
    /\ AgentFrame

NextAgent ==
    \E c \in AgentCalls :
        \/ agentStart(c)
        \/ listToolsResolves(c)
        \/ listToolsRejects(c)
        \/ sessionResolves(c)
        \/ sessionRejects(c)

SpecAgent ==
    InitAgent /\ [][NextAgent]_vars

\* ------------------------------------------- claims about the buffer

AllPatterns ==
    <<FunctionCallPattern, ToolUsePattern, ToolCallPattern>>

\* The match m is a block of t and its open tag is the only one in t.
OnlyBlock(t, m) ==
    /\ m.found
    /\ FirstOpenTag(t) = m.start
    /\ FirstOpenTag(SliceFrom(t, m.start + 1)) = 0

\* The text holds exactly one open tag, that of a complete <tool_call> block.
OneToolCallBlock(t) ==
    OnlyBlock(t, Exec(t, ToolCallPattern, 1))

\* Where that block starts, where it ends, and what it carries.
BlockStart(t) ==
    Exec(t, ToolCallPattern, 1).start

BlockEnd(t) ==
    Exec(t, ToolCallPattern, 1).end - 1

BlockPayload(t) ==
    Exec(t, ToolCallPattern, 1).body

Contains(s, c) ==
    \E i \in 1..Len(s) : s[i] = c

\* The chunk and the calls of the push that a step performs.
StepScanned ==
    buffer \o SubSeq(text, pos + 1, pos')

StepCalls ==
    SubSeq(reported', Len(reported) + 1, Len(reported'))

\* One complete <tool_call> block with a payload that decodes as JSON,
\* streamed under protocol tool or auto.
C1_Case ==
    /\ protocol \in {"tool", "auto"}
    /\ format = "json"
    /\ OneToolCallBlock(text)
    /\ parseToolCallPayload(BlockPayload(text), "json").ok

\* C1: however the text of one complete decodable <tool_call> block is cut
\* into pushes, no push reports a call before the close tag is complete, the
\* push completing it reports exactly the one decoded call, and no later push
\* reports another: the calls reported so far are none before the close tag
\* is complete, and that one call from then on.
C1_OneCallAtClose ==
    C1_Case =>
        reported = IF pos >= BlockEnd(text)
                   THEN <<parseToolCallPayload(BlockPayload(text), "json").val>>
                   ELSE <<>>

\* The block was cut inside its open tag (the cut left a "<" visible), the
\* whole text has been pushed, and one call has been reported.
C1_Witness ==
    /\ C1_Case
    /\ pos = Len(text)
    /\ Len(reported) = 1
    /\ Contains(emitted, "<")

\* C2: while a block is incomplete (a non-empty prefix of it has been pushed,
\* its close tag is not complete), the visible content is exactly the text
\* pushed before the block began.
C2_VisibleExcludesOpenBlock ==
    (/\ OneToolCallBlock(text)
     /\ pos >= BlockStart(text)
     /\ pos < BlockEnd(text))
        => getVisibleContent(buffer) = SubSeq(text, 1, BlockStart(text) - 1)

\* C3: the visible content never gets shorter from one push to the next.
C3_VisibleNeverShrinks ==
    [][Len(getVisibleContent(buffer')) >= Len(getVisibleContent(buffer))]_vars

\* The first open tag of buf that has no close tag of its dialect after it;
\* 0 when every open tag is closed.
FirstUnterminatedOpenTag(buf) ==
    LET hits == {i \in 1..Len(buf) :
                    \E k \in 1..Len(AllPatterns) :
                        /\ MatchesAt(buf, AllPatterns[k].open, i)
                        /\ IndexOf(buf, AllPatterns[k].close,
                                   i + Len(AllPatterns[k].open)) = 0}
    IN  IF hits = {} THEN 0 ELSE MinOf(hits)

\* C4: the visible content is the raw buffer up to the first open tag that
\* has no close tag after it, and the whole raw buffer when there is none:
\* the open tag of a terminated block does not cut it.
C4_VisibleUpToUnterminatedTag ==
    getVisibleContent(buffer) = VisibleUpTo(buffer, FirstUnterminatedOpenTag(buffer))

RECURSIVE DecodableBlocks(_, _, _, _)

\* The block of match m, if its payload decoded as `parsed`.
DecodedBlock(m, parsed) ==
    IF parsed.ok THEN {[start |-> m.start, end |-> m.end, call |-> parsed.val]}
    ELSE {}

DecodableFrom(buf, pat, fmt, m) ==
    IF ~m.found THEN {}
    ELSE DecodedBlock(m, parseToolCallPayload(m.body, fmt))
            \cup DecodableBlocks(buf, pat, fmt, m.end)

\* The complete blocks of one dialect from `from` on whose payload decodes:
\* where each one starts, where its close tag ends, and the decoded call.
DecodableBlocks(buf, pat, fmt, from) ==
    DecodableFrom(buf, pat, fmt, Exec(buf, pat, from))

\* The decodable blocks of every dialect the protocol scans for.
ActiveDecodableBlocks(buf) ==
    UNION {DecodableBlocks(buf, Patterns(protocol)[k], format, 1) :
              k \in 1..Len(Patterns(protocol))}

RECURSIVE ByClosePosition(_)

\* The block of a set whose close tag comes first.
FirstClosed(blocks) ==
    CHOOSE b \in blocks : \A c \in blocks : b.end <= c.end

\* The calls of a set of blocks, from `first` on.
ByCloseFrom(blocks, first) ==
    <<first.call>> \o ByClosePosition(blocks \ {first})

\* The calls of a set of blocks, by increasing position of the close tag.
ByClosePosition(blocks) ==
    IF blocks = {} THEN <<>> ELSE ByCloseFrom(blocks, FirstClosed(blocks))

\* The calls a push returns are those of `blocks` in close order, when there
\* are two or more.
InCloseOrder(blocks, calls) ==
    Cardinality(blocks) >= 2 => calls = ByClosePosition(blocks)

\* C5: a push that leaves two or more complete decodable blocks in the
\* buffer returns all of them, by increasing position of their close tags.
C5_CallsInCloseOrder ==
    [][InCloseOrder(ActiveDecodableBlocks(StepScanned), StepCalls)]_vars

RECURSIVE UndecodableBlocks(_, _, _, _)

UndecodableFrom(buf, pat, fmt, m) ==
    IF ~m.found THEN {}
    ELSE (IF parseToolCallPayload(m.body, fmt).ok THEN {}
          ELSE {SubSeq(buf, m.start, m.end - 1)})
         \cup UndecodableBlocks(buf, pat, fmt, m.end)

\* The text (tags and payload) of the complete blocks of one dialect from
\* `from` on whose payload does not decode.
UndecodableBlocks(buf, pat, fmt, from) ==
    UndecodableFrom(buf, pat, fmt, Exec(buf, pat, from))

\* C6: after every push, each complete block whose payload failed to decode
\* is still in the raw buffer, whatever other blocks the buffer held.
C6_UndecodableBlockStays ==
    [][\A k \in 1..Len(Patterns(protocol)) :
          \A block \in UndecodableBlocks(StepScanned, Patterns(protocol)[k], format, 1) :
              IndexOf(buffer', block, 1) # 0]_vars

\* C9: after every pushToken the Content segments emitted so far, joined in
\* emission order, are the buffer's current visible content.
C9_EmittedIsVisible ==
    emitted = getVisibleContent(buffer)

\* -------------------------------------- claims about extractSegments

\* The text before and after the one block of t.
BeforeBlock(t) ==
    SubSeq(t, 1, BlockStart(t) - 1)

AfterBlock(t) ==
    SliceFrom(t, BlockEnd(t) + 1)

\* segs holds the segment `earlier` at a position before the segment `later`.
Precedes(segs, earlier, later) ==
    \E i, j \in 1..Len(segs) : i < j /\ segs[i] = earlier /\ segs[j] = later

\* segs holds the call, after Content(pre) when pre is not empty and before
\* Content(post) when post is not empty.
InSourceOrder(segs, pre, call, post) ==
    /\ \E j \in 1..Len(segs) : segs[j] = ToolCallSegment(call)
    /\ pre # <<>> => Precedes(segs, ContentSegment(pre), ToolCallSegment(call))
    /\ post # <<>> => Precedes(segs, ToolCallSegment(call), ContentSegment(post))

\* C7: for a text pre + block + post with one decodable <tool_call> block,
\* extractSegments yields Content(pre) before the ToolCall segment and the
\* ToolCall segment before Content(post).
C7_SegmentsInSourceOrder ==
    (/\ extracted
     /\ protocol \in {"tool", "auto"}
     /\ OneToolCallBlock(text)
     /\ parseToolCallPayload(BlockPayload(text), format).ok)
        => InSourceOrder(segments, BeforeBlock(text),
                         parseToolCallPayload(BlockPayload(text), format).val,
                         AfterBlock(text))

RECURSIVE ContentText(_)

\* The text of the Content segments of segs, joined in order.
ContentText(segs) ==
    IF segs = <<>> THEN <<>>
    ELSE (IF Head(segs).type = "content" THEN Head(segs).text ELSE <<>>)
            \o ContentText(Tail(segs))

RECURSIVE WithoutBlocks(_, _, _)

\* The characters of t from position i on that lie in none of the blocks.
WithoutBlocks(t, blocks, i) ==
    IF i > Len(t) THEN <<>>
    ELSE (IF \E b \in blocks : b.start <= i /\ i < b.end THEN <<>> ELSE <<t[i]>>)
            \o WithoutBlocks(t, blocks, i + 1)

\* C8: the text of the Content segments extractSegments returned, joined in
\* order, is the original text with exactly the blocks reported as ToolCall
\* segments (the complete decodable blocks of the protocol's dialects)
\* deleted.
C8_ContentIsTextWithoutCalls ==
    extracted =>
        ContentText(segments) = WithoutBlocks(text, ActiveDecodableBlocks(text), 1)

\* ------------------------------------------- claims about ChatSession

\* No two entries of a log carry the same id.
IdsDistinct(log) ==
    \A i, j \in 1..Len(log) : i < j => log[i].id # log[j].id

RECURSIVE WithId(_)

\* The entries of a log of calls that carry an id of the model's own (not
\* none, not a generated one).
WithId(log) ==
    IF log = <<>> THEN <<>>
    ELSE (IF Head(log).id \in CallIds \ {""} THEN <<Head(log)>> ELSE <<>>)
            \o WithId(Tail(log))

\* C10: within one episode, of the tool calls that carry the same non-empty
\* id only the first has its handler invoked: no two handler invocations of
\* the episode carry the same non-empty id.
C10_SameIdExecutesOnce ==
    IdsDistinct(WithId(invocations))

\* The call of a log entry can reach its handler: there is an MCPService, the
\* name is that of a registered tool and the arguments pass its schema.
Executable(entry) ==
    mcpService /\ entry.name \in RegisteredTools /\ entry.valid

\* How many entries of a log satisfy Executable.
ExecutableCount(log) ==
    Cardinality({i \in 1..Len(log) : Executable(log[i])})

\* C11: a handler is invoked only for a call whose name is that of a
\* registered tool and whose arguments pass the schema; a call with a missing
\* name, an unregistered name or invalid arguments leaves a ToolCallResult
\* with an error and causes no handler invocation: the handler invocations
\* are exactly one per recorded result of an executable call, and one more
\* while a race is pending.
C11_HandlerOnlyForValidCalls ==
    /\ \A i \in 1..Len(invocations) : Executable(invocations[i])
    /\ \A i \in 1..Len(toolCallResults) :
          ~Executable(toolCallResults[i]) => toolCallResults[i].outcome = "error"
    /\ Len(invocations) =
          ExecutableCount(toolCallResults) + (IF chatPc = "race" THEN 1 ELSE 0)

\* With an MCPService, a call without name, a call to an unknown tool and a
\* call with invalid arguments have all been attempted in one episode.
C11_Witness ==
    /\ mcpService
    /\ chatPc = "returned"
    /\ \E i, j, k \in 1..Len(toolCallResults) :
          /\ toolCallResults[i].name = ""
          /\ toolCallResults[j].name = "unknown"
          /\ toolCallResults[k].name \in RegisteredTools
          /\ ~toolCallResults[k].valid

AgenticChat ==
    agenticMode /\ mode = "chat" /\ chatPc # "idle"

EveryRoundHasCalls ==
    \A i \in 1..Len(rounds) : rounds[i].calls # <<>>

C13_RoundWithoutCallsIsLast ==
    AgenticChat =>
        \A i \in 1..Len(rounds) :
            rounds[i].calls = <<>> => i = Len(rounds) /\ chatPc = "returned"

C13_Witness ==
    /\ AgenticChat /\ chatPc = "returned"
    /\ Len(rounds) = 1
    /\ rounds[1].calls = <<>>
    /\ Len(rounds) < maxAgenticIterations

\* C14: chat() in agentic mode returns the assistant content of the last
\* round it performed, whether the loop stopped on a round without tool
\* calls or on the iteration cap.
C14_ReturnsLastRoundContent ==
    (AgenticChat /\ chatPc = "returned")
        => returned = rounds[Len(rounds)].content

RECURSIVE AllCalls(_)

\* The tool calls of the rounds, in detection order.
AllCalls(rs) ==
    IF rs = <<>> THEN <<>> ELSE Head(rs).calls \o AllCalls(Tail(rs))

\* The message executeToolCalls appends with a result.
MessageOf(result) ==
    IF result.outcome = "result"
    THEN ChatMessage("tool", result.name, <<"done">>)
    ELSE ChatMessage("assistant", "",
                     <<"Error executing ", result.name, ": ", result.detail>>)

RECURSIVE MessagesOf(_)

MessagesOf(results) ==
    IF results = <<>> THEN <<>>
    ELSE <<MessageOf(Head(results))>> \o MessagesOf(Tail(results))

RECURSIVE RoundMessages(_, _)

\* The messages of the first of the rounds rs, n of the results being its
\* own, followed by those of the later rounds.
RoundMessagesTaking(rs, results, n) ==
    WithAssistantMessage(<<>>, Head(rs).content)
        \o MessagesOf(SubSeq(results, 1, n))
        \o RoundMessages(Tail(rs), SubSeq(results, n + 1, Len(results)))

\* The messages of the rounds rs: each round's assistant content message,
\* when the content is not blank, then the messages of its calls' results.
RoundMessages(rs, results) ==
    IF rs = <<>> THEN <<>>
    ELSE RoundMessagesTaking(rs, results,
                             MinOf({Len(Head(rs).calls), Len(results)}))

\* The calls of the round under execution that have no result yet.
CallsToCome ==
    IF chatPc \in {"execute", "race"} THEN Len(toolCalls) - callIndex + 1 ELSE 0

\* The results are those of the detected calls, in detection order.
ResultsInDetectionOrder ==
    \A i \in 1..Len(toolCallResults) :
        /\ i <= Len(AllCalls(rounds))
        /\ toolCallResults[i].name = AllCalls(rounds)[i].name
        /\ toolCallResults[i].id = normalizeToolCall(AllCalls(rounds)[i]).id

\* C15: in every chat() call the history is the user message and then, round
\* after round, the round's assistant content message (when the content is
\* not blank) followed by one message per tool call of the round in
\* detection order, the assistant message standing in history before any
\* handler of the round is invoked.
C15_ChatHistoryInCausalOrder ==
    (mode = "chat" /\ chatPc # "idle") =>
        /\ history = <<UserMessage>> \o RoundMessages(rounds, toolCallResults)
        /\ ResultsInDetectionOrder
        /\ Len(toolCallResults) + CallsToCome = Len(AllCalls(rounds))

\* C16: in every stream() call the turn's assistant content message stands
\* in history before any handler of the turn is invoked and before any tool
\* or error message of the turn: once a handler has been invoked, a result
\* recorded or stream() has returned, the history has the order of a chat()
\* turn's.
C16_StreamHistoryInCausalOrder ==
    (/\ mode = "stream"
     /\ invocations # <<>> \/ toolCallResults # <<>> \/ chatPc = "returned")
        => history = <<UserMessage>> \o RoundMessages(rounds, toolCallResults)

\* C17: in stream() a tool call is executed as soon as the buffer reports
\* it: when the next chunk of the stream is handled, and when the stream
\* ends, every call reported so far has been executed.
C17_ExecutesBeforeNextChunk ==
    [][(mode = "stream" /\ (chunks' # chunks \/ rounds' # rounds))
          => Len(toolCallResults) = Len(toolCalls)]_vars

\* The result is that of the call.
ResultOf(call, result) ==
    /\ result.name = call.name
    /\ result.id = normalizeToolCall(call).id
    /\ result.valid = call.valid

\* The last n elements of a sequence.
LastOf(seq, n) ==
    SubSeq(seq, Len(seq) - n + 1, Len(seq))

\* The handlers invoked whose race is not over.
HandlersAwaited ==
    Len(invocations) - ExecutableCount(toolCallResults)

\* C18: within a round executeToolCalls works through the calls one at a
\* time: when it stands at call k+1 the results of calls 1..k are the last
\* k of toolCallResults, in detection order, their messages are the last k
\* of history, in the same order, and no handler but that of call k+1 is
\* awaited; when it is through, the results of the round's calls are the
\* last of toolCallResults, in detection order.
C18_OneCallAtATime ==
    /\ chatPc \in {"execute", "race"} =>
          /\ callIndex \in 1..Len(toolCalls)
          /\ callIndex - 1 <= Len(toolCallResults)
          /\ \A k \in 1..(callIndex - 1) :
                ResultOf(toolCalls[k], LastOf(toolCallResults, callIndex - 1)[k])
          /\ callIndex - 1 <= Len(history)
          /\ LastOf(history, callIndex - 1)
                = MessagesOf(LastOf(toolCallResults, callIndex - 1))
          /\ HandlersAwaited = (IF chatPc = "race" THEN 1 ELSE 0)
          /\ chatPc = "race"
                => invocations[Len(invocations)] = toolCalls[callIndex]
    /\ (chatPc \in {"completion", "returned"} /\ (mcpService \/ mode = "stream")) =>
          /\ Len(toolCalls) <= Len(toolCallResults)
          /\ \A k \in 1..Len(toolCalls) :
                ResultOf(toolCalls[k], LastOf(toolCallResults, Len(toolCalls))[k])
          /\ HandlersAwaited = 0

C18_Witness ==
    /\ chatPc = "race"
    /\ callIndex = 2
    /\ Len(invocations) = 2
    /\ toolCallResults # <<>>
    /\ toolCallResults[Len(toolCallResults)].outcome = "result"

\* The history h with the error message of the timeout of call.
WithTimeoutMessage(h, call) ==
    Append(h, MessageOf(ToolCallResult(call, "error", "Tool call timeout")))

Recorded(results) ==
    results[Len(results)]

\* The history h after the step that recorded a result with message msg:
\* msg is appended, and stream(), the call being its last, adds its
\* assistant message.
AppendedOnly(h, msg, after) ==
    \/ after = Append(h, msg)
    \/ /\ mode = "stream" /\ callIndex = Len(toolCalls)
       /\ after = WithAssistantMessage(Append(h, msg), assistantContent)

C23_ProviderErrorRethrown ==
    [][/\ (/\ chatPc \in {"completion", "streaming"}
           /\ rounds' = rounds /\ chunks' = chunks /\ chatPc' # chatPc)
            => chatPc' = "thrown"
       /\ chatPc' = "thrown" =>
            /\ chatPc \in {"completion", "streaming", "thrown"}
            /\ history' = history
            /\ toolCallResults' = toolCallResults
            /\ returned' = <<>>
            /\ history = <<UserMessage>> \o RoundMessages(rounds, toolCallResults)]_vars

C23_Witness ==
    /\ chatPc = "thrown"
    /\ mode = "chat"
    /\ Len(rounds) = 1
    /\ Len(toolCallResults) = 1
    /\ Len(history) = 3

\* The complete blocks of every dialect the protocol scans for whose payload
\* does not decode.
ActiveUndecodableBlocks(buf) ==
    UNION {UndecodableBlocks(buf, Patterns(protocol)[k], format, 1) :
              k \in 1..Len(Patterns(protocol))}

\* C22: a payload that fails every applicable decode attempt is turned into
\* a failure, neither dropped in silence nor thrown: a push that scans a
\* complete block whose payload does not decode reports an item for it, on
\* top of the calls of the blocks that decode.
C22_UndecodablePayloadSurfaces ==
    [][ActiveUndecodableBlocks(StepScanned) # {}
          => Len(StepCalls) > Cardinality(ActiveDecodableBlocks(StepScanned))]_vars

\* ------------------------------------ claims about parseToolCallPayload

\* The payload as the decoders get it.
Stripped ==
    stripMarkdownCodeBlock(Trim(text))

\* C24: with format 'auto' parseToolCallPayload returns what the first of
\* the JSON, YAML and XML decoders that succeeds returns, never what a later
\* one returns when an earlier one succeeds, and throws exactly when all
\* three fail.
C24_AutoReturnsFirstSuccess ==
    (decodePc = "done" /\ format = "auto") =>
        /\ tryParseJson(Stripped).ok => decoded = tryParseJson(Stripped)
        /\ (~tryParseJson(Stripped).ok /\ yamlLoad(Stripped).ok)
              => decoded = yamlLoad(Stripped)
        /\ (~tryParseJson(Stripped).ok /\ ~yamlLoad(Stripped).ok
               /\ parseXml(Stripped).ok)
              => decoded = parseXml(Stripped)
        /\ ~decoded.ok <=> (/\ ~tryParseJson(Stripped).ok
                            /\ ~yamlLoad(Stripped).ok
                            /\ ~parseXml(Stripped).ok)

C24_Witness ==
    /\ decodePc = "done"
    /\ format = "auto"
    /\ tryParseJson(Stripped).ok
    /\ yamlLoad(Stripped).ok
    /\ yamlLoad(Stripped) # tryParseJson(Stripped)
    /\ decoded = tryParseJson(Stripped)

RECURSIVE MatchingBrace(_, _, _)

\* The position of the "}" that brings the brace depth back to 0, scanning s
\* from position i at depth `depth`; 0 when there is none.
MatchingBrace(s, i, depth) ==
    IF i > Len(s) THEN 0
    ELSE IF s[i] = "{" THEN MatchingBrace(s, i + 1, depth + 1)
    ELSE IF s[i] = "}" THEN
        (IF depth = 1 THEN i ELSE MatchingBrace(s, i + 1, depth - 1))
    ELSE MatchingBrace(s, i + 1, depth)

\* The substring of s from position first to position last, the empty text
\* when either is 0.
Between(s, first, last) ==
    IF first = 0 \/ last = 0 THEN <<>> ELSE SubSeq(s, first, last)

\* The first balanced {...} substring of s: from the first "{" to its
\* matching "}".
FirstBalanced(s) ==
    Between(s, IndexOf(s, <<"{">>, 1),
            IF IndexOf(s, <<"{">>, 1) = 0 THEN 0
            ELSE MatchingBrace(s, IndexOf(s, <<"{">>, 1), 0))

\* C25: with format 'json', when the whole payload does not parse and its
\* first balanced {...} substring is valid JSON, parseToolCallPayload
\* returns the value of that substring, whatever text surrounds it.
C25_JsonParsesFirstBalancedObject ==
    (/\ decodePc = "done"
     /\ format = "json"
     /\ ~JsonParse(Stripped).ok
     /\ JsonParse(FirstBalanced(Stripped)).ok)
        => decoded = JsonParse(FirstBalanced(Stripped))

\* ------------------------------- claims about chat() calls on one session

\* C26: when a second chat() is started on a session before the first has
\* finished, the messages of the two turns are not interleaved in history:
\* between two messages of one turn there is no message of the other.
C26_TurnsNotInterleaved ==
    \A i, j, k \in 1..Len(sessionHistory) :
        (i < j /\ j < k /\ sessionHistory[i].turn = sessionHistory[k].turn)
            => sessionHistory[j].turn = sessionHistory[i].turn

\* C28: the session's log of results is bounded: however many tool calls
\* the session executes, toolCallResults never holds more results than the
\* recent ones getRecentToolCalls returns.
C28_ResultsLogBounded ==
    Len(sessionResults) <= RecentToolCalls

\* C27: with agentic mode enabled stream() follows the round structure of
\* chat(): a stream() that has returned, every round of which produced a
\* tool call, has asked the model maxAgenticIterations times, as chat()
\* does.
C27_StreamFollowsAgenticRounds ==
    (/\ agenticMode /\ mode = "stream" /\ chatPc = "returned"
     /\ EveryRoundHasCalls)
        => Len(rounds) = maxAgenticIterations

\* ------------------------- claims about handleToolCallFromModelOutput

\* The call carries an id that is in the set.
CarriesSeenId(toolCall) ==
    (toolCall.id # "" \/ toolCall.tool_call_id # "") /\ CallIdOf(toolCall) \in seenIds

\* The step adds no message and no result and invokes no handler.
NothingDone ==
    /\ handleMessages' = handleMessages
    /\ handleResults' = handleResults
    /\ handleInvoked' = handleInvoked

\* C29: handleToolCallFromModelOutput skips a detected call exactly when the
\* call carries an id (id or tool_call_id) that is in the set of processed
\* ids: the pass of a skipped call invokes no handler and adds no message
\* and no result, and the pass of any other call does one of these, having
\* put the call's id, if it has one, in the set by the time the handler is
\* invoked; a call without id is never skipped; and the set is the one of
\* the invocation before when the caller passes processedToolCallIds.
C29_SkipsExactlySeenIds ==
    [][/\ handlePc = "loop" =>
            /\ CarriesSeenId(handleCalls[handleIndex]) <=> NothingDone
            /\ CallIdOf(handleCalls[handleIndex]) # ""
                  => CallIdOf(handleCalls[handleIndex]) \in seenIds'
            /\ CallIdOf(handleCalls[handleIndex]) = "" => seenIds' = seenIds
            /\ seenIds \subseteq seenIds'
       /\ handlePc = "await" => seenIds' = seenIds
       /\ (handlePc \in {"idle", "done"} /\ passesSet) => seenIds' = seenIds]_vars

C29_Witness ==
    /\ passesSet
    /\ handlePc = "done"
    /\ Len(handleCalls) = 2
    /\ handleCalls[1].id = "" /\ handleCalls[1].tool_call_id = "a"
    /\ handleCalls[2].id = "b" /\ handleCalls[2].kind = "ok"
    /\ handleMessages = <<HandleMessage("tool", handleCalls[2])>>
    /\ Len(handleResults) = 1
    /\ handleInvoked = <<handleCalls[2]>>

\* -------------------------------------------- claims about astream_chat

\* C30: in astream_chat the tool calls detected during the stream execute
\* one at a time, their tool messages are added to history in detection
\* order, and once astream_chat has returned no handler is still awaited and
\* every tool message stands before the final assistant message.
C30_LegacyStreamExecutesInOrder ==
    /\ Cardinality(legacyPending) <= 1
    /\ \A i, j \in 1..Len(legacyHistory) :
          (/\ i < j
           /\ legacyHistory[i].role = "tool"
           /\ legacyHistory[j].role = "tool")
              => legacyHistory[i].call < legacyHistory[j].call
    /\ legacyPc = "returned" =>
          /\ legacyPending = {}
          /\ \A i, j \in 1..Len(legacyHistory) :
                (legacyHistory[i].role = "assistant" /\ legacyHistory[j].role = "tool")
                    => j < i

\* ------------------------------------- claims about results and messages

\* The message is one executeToolCalls adds for a call: the 'tool' message
\* of a result or the assistant message of an error.
IsCallMessage(msg) ==
    \/ msg.role = "tool"
    \/ /\ msg.role = "assistant"
       /\ msg.content # <<>>
       /\ Head(msg.content) = "Error executing "

\* C31: every tool-call segment handed to ChatSession in a round leaves
\* exactly one ToolCallResult in toolCallResults and exactly one message
\* (Tool or error Assistant) in history, with or without an MCP service:
\* when the call returns there are as many results, and as many such
\* messages, as calls handed over.
C31_OneResultAndMessagePerSegment ==
    chatPc = "returned" =>
        /\ Len(toolCallResults) = Len(AllCalls(rounds))
        /\ Cardinality({i \in 1..Len(history) : IsCallMessage(history[i])})
              = Len(AllCalls(rounds))

\* C32: a call reported by push is never reported again by a later push on
\* the same buffer, push('') and so finalize() included: every streamed text
\* writes each payload once, so no two of the calls reported so far are the
\* same call.
C32_NeverReportedAgain ==
    \A i, j \in 1..Len(reported) : i # j => reported[i] # reported[j]

\* The dialect of pat is one that push scans under protocol p.
ActiveDialect(pat, p) ==
    \E k \in 1..Len(Patterns(p)) : Patterns(p)[k] = pat

\* The first complete block of pat in before is still in after.
BlockKept(pat, before, after) ==
    Exec(before, pat, 1).found =>
        /\ Exec(after, pat, 1).found
        /\ Exec(after, pat, 1).body = Exec(before, pat, 1).body

\* C33: a complete block of a dialect that is not in the protocol's pattern
\* set is never reported as a call and never removed from the raw buffer by a
\* push: a push that scans no complete block of an active dialect reports no
\* call, and the block of an inactive dialect that the scanned buffer holds
\* is in the buffer after the push.
C33_InactiveDialectUntouched ==
    [][/\ (\A k \in 1..Len(AllPatterns) :
              ActiveDialect(AllPatterns[k], protocol)
                  => ~Exec(StepScanned, AllPatterns[k], 1).found)
          => StepCalls = <<>>
       /\ \A k \in 1..Len(AllPatterns) :
             ~ActiveDialect(AllPatterns[k], protocol)
                 => BlockKept(AllPatterns[k], StepScanned, buffer')]_vars

\* ------------------------------ claims about astream_chat's streamed text

\* C34: when the template's protocol is 'none', astream_chat invokes no tool
\* handler, whatever dialect tags the output holds.
C34_NoneInvokesNoHandler ==
    templateProtocol = "none" => HandlersInvoked = <<>>

\* C35: with combineContentSegments enabled astream_chat returns the content
\* of the assistant message it added, each visible character once.
C35_ReturnsAssistantContent ==
    (/\ astreamPc = "returned"
     /\ combineContentSegments
     /\ astreamMessage.added)
        => astreamReturned = astreamMessage.content

\* C36: one chat() or stream() call never executes more than
\* options.maxToolCalls tool calls: the handlers invoked in the episode are at
\* most maxToolCalls.
C36_AtMostMaxToolCalls ==
    Len(invocations) <= maxToolCalls

\* ------------------------------------------- claims about RetryHandler

\* C37: one call of execute, and one call of executeWithRetryAfter, invokes
\* the wrapped operation at most maxAttempts times, and no invocation follows
\* the first success or the first non-retryable error.
C37_AtMostMaxAttempts ==
    /\ operationCalls <= maxAttempts
    /\ \A i \in 1..Len(operationLog) :
          operationLog[i] \in {"ok", "fatal"} => operationCalls = i

\* ---------------------------------------------- claims about the Agent

\* C38: initializeMcpTools is all-or-nothing for the tool registry: the step
\* in which it throws, after a transport failure or at a duplicate name,
\* leaves the registered tools as they were.
C38_InitializationAllOrNothing ==
    [][\A c \in AgentCalls :
          (agentPc[c] = "initializing" /\ agentPc'[c] = "thrown")
              => tools' = tools]_vars

\* The call c is in progress.
InProgress(c) ==
    agentPc[c] \in {"initializing", "chatting"}

\* C39: isRunning() is true exactly while at least one execute() or stream()
\* call on the agent is in progress.
C39_RunningWhileInProgress ==
    isRunning <=> \E c \in AgentCalls : InProgress(c)
====
